---- MODULE Spec2Model ----
(***************************************************************************)
(* Model of the rule-based validation engine of py-schemax:                *)
(*   py_schemax/validator.py  (FileValidator, PydanticSchemaValidator,     *)
(*                             UniqueFQNValidator, DependencyValidator)    *)
(*   py_schemax/rulesets.py   (RuleSetBasedValidation)                     *)
(*   py_schemax/utils.py      (merge_validation_outputs)                   *)
(*   py_schemax/summary.py    (Summary)                                    *)
(*   py_schemax/output.py     (OutputControl)                              *)
(* Strings are Python strings; f-strings are modelled by concatenation.    *)
(***************************************************************************)
EXTENDS Integers, Sequences, FiniteSets, TLC

VARIABLES
    cli_args,         \* cli.validate: the --rule-apply / --rule-ignore options of the invocation
    config,           \* Config: model_required_attributes, column_required_attributes
    apply_rules,      \* RuleSetBasedValidation.__init__: the rules the validators were built from
    fqn_to_file_map,  \* UniqueFQNValidator.__fqn_to_file_map, one map per validator instance
    sorted_graph,     \* DependencyValidator.__sorted_graph, one map per direction's instance
    last,             \* the call that just returned: operation, arguments, outcome
    first_seen,       \* history: per UniqueFQNValidator instance, fqn -> file_path of the first call carrying it
    last_insert,      \* history: per direction, how the latest call that recorded an edge ended
    ncalls,           \* number of calls made so far
    summary,          \* Summary: the three counters and error_files
    output_control,   \* OutputControl: output_format, output_level, fail_mode, show_summary
    stdout,           \* what the output controller has printed so far, in order
    exit_code,        \* how the run ended: Running, 0, or 1 after click.ClickException
    add_calls         \* history: the (valid, file_path) of every add_record call

batch_vars == <<summary, output_control, stdout, exit_code, add_calls>>

vars == <<cli_args, config, apply_rules, fqn_to_file_map, sorted_graph, last, first_seen, last_insert, ncalls,
          summary, output_control, stdout, exit_code, add_calls>>

\* Number of validate / validate_file calls explored in one run.
MaxCalls == 3

\* Length of the rule list an orchestrator is constructed with.
MaxRules == 2

(***************************************************************************)
(* Loaded content: the JSON/YAML tree (object, list, string, number, bool, *)
(* null).  Each kind has its own payload field.                            *)
(***************************************************************************)
None == [t |-> "null"]
PyStr(s) == [t |-> "str", s |-> s]
PyInt(n) == [t |-> "int", n |-> n]
PyBool(b) == [t |-> "bool", b |-> b]
PyFloat(tenths) == [t |-> "float", tenths |-> tenths]
PyList(items) == [t |-> "list", items |-> items]
PyDict(d) == [t |-> "dict", d |-> d]

EmptyDict == PyDict([k \in {} |-> None])

\* isinstance(value, <type>)
isinstance(value, ty) == value.t = ty

\* Python truthiness of a loaded value (used by `content or {}`).
truthy(value) ==
    CASE value.t = "null" -> FALSE
      [] value.t = "str" -> value.s # ""
      [] value.t = "int" -> value.n # 0
      [] value.t = "bool" -> value.b
      [] value.t = "float" -> value.tenths # 0
      [] value.t = "list" -> value.items # <<>>
      [] value.t = "dict" -> DOMAIN value.d # {}

\* dict.get(key, default)
dict_get(data, key, default) ==
    IF key \in DOMAIN data.d THEN data.d[key] ELSE default

\* d[key] = value on a Python dict, as a new mapping
dict_set(d, key, value) ==
    [k \in DOMAIN d \cup {key} |-> IF k = key THEN value ELSE d[k]]

EmptyMap == [k \in {} |-> ""]

\* The filesystem: the paths (whole strings) for which Path(p).exists() is True.
ExistingFiles == {"a.yaml", "b.json", "c.YML", "d.txt"}

(***************************************************************************)
(* ValidationErrorSchema / ValidationOutputSchema.  pydantic_error is the  *)
(* empty sequence for None, else a one-element sequence holding the pair.  *)
(***************************************************************************)
ValidationErrorSchema(type, error_at, message, pydantic_error) ==
    [type |-> type, error_at |-> error_at, message |-> message,
     pydantic_error |-> pydantic_error]

ValidationOutputSchema(file_path, valid, errors, error_count) ==
    [file_path |-> file_path, valid |-> valid, errors |-> errors,
     error_count |-> error_count]

ValidOutput(file_path) == ValidationOutputSchema(file_path, TRUE, <<>>, 0)

\* The outcome slot of `last` when the call raised instead of returning.
NoOutput == ValidationOutputSchema("", FALSE, <<>>, 0)

\* Variant: a duplicate call takes the claim over (the registry records the latest caller).
UniqueFQNValidator_validate_LastWins(map, data, file_path) ==
    IF ~isinstance(data, "dict")
    THEN [out |-> NoOutput, map |-> map, raised |-> "AttributeError"]
    ELSE
    LET current_fqn == dict_get(data, "fqn", None) IN
    IF current_fqn = None \/ ~isinstance(current_fqn, "str")
    THEN [out |-> ValidationOutputSchema(file_path, FALSE,
                    <<ValidationErrorSchema("missing_fqn", "$.fqn",
                        "Duplicate fqn check is enabled but fqn field is missing or invalid",
                        <<>>)>>, 1),
          map |-> map, raised |-> ""]
    ELSE IF current_fqn.s \in DOMAIN map
    THEN [out |-> ValidationOutputSchema(file_path, FALSE,
                    <<ValidationErrorSchema("duplicate_fqn", "$.fqn",
                        "Duplicate FQN '" \o current_fqn.s \o "', already present at '"
                            \o map[current_fqn.s] \o "'",
                        <<>>)>>, 1),
          map |-> dict_set(map, current_fqn.s, file_path), raised |-> ""]
    ELSE [out |-> ValidOutput(file_path),
          map |-> dict_set(map, current_fqn.s, file_path),
          raised |-> ""]

\* Variant: a fqn claimed by the same file_path is accepted again.
UniqueFQNValidator_validate_SameSourceOk(map, data, file_path) ==
    IF ~isinstance(data, "dict")
    THEN [out |-> NoOutput, map |-> map, raised |-> "AttributeError"]
    ELSE
    LET current_fqn == dict_get(data, "fqn", None) IN
    IF current_fqn = None \/ ~isinstance(current_fqn, "str")
    THEN [out |-> ValidationOutputSchema(file_path, FALSE,
                    <<ValidationErrorSchema("missing_fqn", "$.fqn",
                        "Duplicate fqn check is enabled but fqn field is missing or invalid",
                        <<>>)>>, 1),
          map |-> map, raised |-> ""]
    ELSE IF current_fqn.s \in DOMAIN map /\ map[current_fqn.s] # file_path
    THEN [out |-> ValidationOutputSchema(file_path, FALSE,
                    <<ValidationErrorSchema("duplicate_fqn", "$.fqn",
                        "Duplicate FQN '" \o current_fqn.s \o "', already present at '"
                            \o map[current_fqn.s] \o "'",
                        <<>>)>>, 1),
          map |-> map, raised |-> ""]
    ELSE [out |-> ValidOutput(file_path),
          map |-> dict_set(map, current_fqn.s, file_path),
          raised |-> ""]

\* Variant: only a null/absent fqn is rejected; any other value is used as the key.
UniqueFQNValidator_validate_NoneOnly(map, data, file_path) ==
    IF ~isinstance(data, "dict")
    THEN [out |-> NoOutput, map |-> map, raised |-> "AttributeError"]
    ELSE
    LET current_fqn == dict_get(data, "fqn", None)
        key == IF isinstance(current_fqn, "str") THEN current_fqn.s ELSE "<" \o current_fqn.t \o ">"
    IN
    IF current_fqn = None
    THEN [out |-> ValidationOutputSchema(file_path, FALSE,
                    <<ValidationErrorSchema("missing_fqn", "$.fqn",
                        "Duplicate fqn check is enabled but fqn field is missing or invalid",
                        <<>>)>>, 1),
          map |-> map, raised |-> ""]
    ELSE IF key \in DOMAIN map
    THEN [out |-> ValidationOutputSchema(file_path, FALSE,
                    <<ValidationErrorSchema("duplicate_fqn", "$.fqn",
                        "Duplicate FQN '" \o key \o "', already present at '"
                            \o map[key] \o "'",
                        <<>>)>>, 1),
          map |-> map, raised |-> ""]
    ELSE [out |-> ValidOutput(file_path),
          map |-> dict_set(map, key, file_path),
          raised |-> ""]

(***************************************************************************)
(* UniqueFQNValidator.validate.  Returns the outcome, the registry after   *)
(* the call, and the exception raised (data.get on a non-dict).            *)
(***************************************************************************)
UniqueFQNValidator_validate(map, data, file_path) ==
    IF ~isinstance(data, "dict")
    THEN [out |-> NoOutput, map |-> map, raised |-> "AttributeError"]
    ELSE
    LET current_fqn == dict_get(data, "fqn", None) IN
    IF current_fqn = None \/ ~isinstance(current_fqn, "str")
    THEN [out |-> ValidationOutputSchema(file_path, FALSE,
                    <<ValidationErrorSchema("missing_fqn", "$.fqn",
                        "Duplicate fqn check is enabled but fqn field is missing or invalid",
                        <<>>)>>, 1),
          map |-> map, raised |-> ""]
    ELSE IF current_fqn.s \in DOMAIN map
    THEN [out |-> ValidationOutputSchema(file_path, FALSE,
                    <<ValidationErrorSchema("duplicate_fqn", "$.fqn",
                        "Duplicate FQN '" \o current_fqn.s \o "', already present at '"
                            \o map[current_fqn.s] \o "'",
                        <<>>)>>, 1),
          map |-> map, raised |-> ""]
    ELSE [out |-> ValidOutput(file_path),
          map |-> dict_set(map, current_fqn.s, file_path),
          raised |-> ""]

(***************************************************************************)
(* DependencyValidator.  `graphs` holds the __sorted_graph of every        *)
(* instance; `self` names the instance by the field it validates.          *)
(* An Optional[ValidationOutputSchema] is <<>> for None, else <<outcome>>. *)
(***************************************************************************)
Range(seq) == {seq[i] : i \in 1..Len(seq)}

\* all(isinstance(item, str) for item in value)
all_str(value) == \A i \in 1..Len(value.items) : isinstance(value.items[i], "str")

\* The list of Python strings as a sequence of strings.
str_items(value) == [i \in 1..Len(value.items) |-> value.items[i].s]

_validate_field_type(name, value) ==
    IF ~isinstance(value, "list")
    THEN <<ValidationOutputSchema("", FALSE,
              <<ValidationErrorSchema("invalid_type", "$." \o name,
                    "'" \o name \o "' must be a list", <<>>)>>, 1)>>
    ELSE IF ~all_str(value)
    THEN <<ValidationOutputSchema("", FALSE,
              <<ValidationErrorSchema("invalid_type", "$." \o name,
                    "'" \o name \o "' must be a list of strings", <<>>)>>, 1)>>
    ELSE <<>>

\* Variant: one dict shared by all instances (a class-level attribute).
_add_dependency_Shared(graphs, self, file_path, dependencies) ==
    [g \in DOMAIN graphs |-> dict_set(graphs[g], file_path, dependencies)]

_add_dependency(graphs, self, file_path, dependencies) ==
    [graphs EXCEPT ![self] = dict_set(@, file_path, dependencies)]

\* graphlib.TopologicalSorter(graph): every key and every listed predecessor is a node.
graph_nodes(graph) == DOMAIN graph \cup UNION {Range(graph[k]) : k \in DOMAIN graph}

graph_predecessors(graph, node) ==
    IF node \in DOMAIN graph THEN Range(graph[node]) ELSE {}

\* prepare(): the graph cannot be put in topological order (CycleError) exactly
\* when peeling off the nodes with no remaining predecessor gets stuck.
RECURSIVE prepare_raises(_, _)
prepare_raises(graph, remaining) ==
    LET ready == {n \in remaining : graph_predecessors(graph, n) \cap remaining = {}} IN
    IF remaining = {} THEN FALSE
    ELSE IF ready = {} THEN TRUE
    ELSE prepare_raises(graph, remaining \ ready)

\* Variant: only a node that lists itself, or two nodes listing each other, is found.
_validate_circular_dependency_Direct(graph, name) ==
    IF \E n \in DOMAIN graph : \E m \in Range(graph[n]) :
            m = n \/ (m \in DOMAIN graph /\ n \in Range(graph[m]))
    THEN <<ValidationOutputSchema("", FALSE,
              <<ValidationErrorSchema("circular_dependency_detected", "$." \o name,
                    "circular dependency present: <cycle>", <<>>)>>, 1)>>
    ELSE <<>>

\* The text of the CycleError (graphlib's description of the cycle found) is
\* kept as the token <cycle>.
_validate_circular_dependency(graph, name) ==
    IF prepare_raises(graph, graph_nodes(graph))
    THEN <<ValidationOutputSchema("", FALSE,
              <<ValidationErrorSchema("circular_dependency_detected", "$." \o name,
                    "circular dependency present: <cycle>", <<>>)>>, 1)>>
    ELSE <<>>

\* Variant: the last missing path of the list is reported.
first_missing_Last(deps) ==
    LET missing == {i \in 1..Len(deps) : deps[i] \notin ExistingFiles} IN
    IF missing = {} THEN <<>>
    ELSE <<deps[CHOOSE i \in missing : \A j \in missing : j <= i]>>

\* for dep in depends_on: if not Path(dep).exists(): return ...
RECURSIVE first_missing(_)
first_missing(deps) ==
    IF deps = <<>> THEN <<>>
    ELSE IF Head(deps) \notin ExistingFiles THEN <<Head(deps)>>
    ELSE first_missing(Tail(deps))

\* Variant: the cycle check runs on the map as it was, and the edge is recorded after it.
_validate_for_CheckFirst(graphs, field_name, data, file_path) ==
    IF ~isinstance(data, "dict")
    THEN [out |-> NoOutput, graphs |-> graphs, raised |-> "AttributeError"]
    ELSE
    LET depends_on == dict_get(data, field_name, PyList(<<>>))
        error == _validate_field_type(field_name, depends_on)
    IN
    IF error # <<>>
    THEN [out |-> error[1], graphs |-> graphs, raised |-> ""]
    ELSE
    LET deps == str_items(depends_on)
        missing == first_missing(deps)
        added == _add_dependency(graphs, field_name, file_path, deps)
        cycle == _validate_circular_dependency(graphs[field_name], field_name)
    IN
    IF missing # <<>>
    THEN [out |-> ValidationOutputSchema(file_path, FALSE,
                    <<ValidationErrorSchema("dependent_file_not_found", "$." \o field_name,
                        "File '" \o missing[1] \o "' provided in '" \o field_name
                            \o "' field not found", <<>>)>>, 1),
          graphs |-> graphs, raised |-> ""]
    ELSE IF cycle # <<>>
    THEN [out |-> cycle[1], graphs |-> added, raised |-> ""]
    ELSE [out |-> ValidOutput(file_path), graphs |-> added, raised |-> ""]

\* Variant: the edge is taken out again when the cycle check fails.
_validate_for_Rollback(graphs, field_name, data, file_path) ==
    IF ~isinstance(data, "dict")
    THEN [out |-> NoOutput, graphs |-> graphs, raised |-> "AttributeError"]
    ELSE
    LET depends_on == dict_get(data, field_name, PyList(<<>>))
        error == _validate_field_type(field_name, depends_on)
    IN
    IF error # <<>>
    THEN [out |-> error[1], graphs |-> graphs, raised |-> ""]
    ELSE
    LET deps == str_items(depends_on)
        missing == first_missing(deps)
        added == _add_dependency(graphs, field_name, file_path, deps)
        cycle == _validate_circular_dependency(added[field_name], field_name)
    IN
    IF missing # <<>>
    THEN [out |-> ValidationOutputSchema(file_path, FALSE,
                    <<ValidationErrorSchema("dependent_file_not_found", "$." \o field_name,
                        "File '" \o missing[1] \o "' provided in '" \o field_name
                            \o "' field not found", <<>>)>>, 1),
          graphs |-> graphs, raised |-> ""]
    ELSE IF cycle # <<>>
    THEN [out |-> cycle[1], graphs |-> graphs, raised |-> ""]
    ELSE [out |-> ValidOutput(file_path), graphs |-> added, raised |-> ""]

\* DependencyValidator._validate_for
\* Variant: the cycle check looks at the edge just recorded only.
_validate_for_OwnEdgeOnly(graphs, field_name, data, file_path) ==
    IF ~isinstance(data, "dict")
    THEN [out |-> NoOutput, graphs |-> graphs, raised |-> "AttributeError"]
    ELSE
    LET depends_on == dict_get(data, field_name, PyList(<<>>))
        error == _validate_field_type(field_name, depends_on)
    IN
    IF error # <<>>
    THEN [out |-> error[1], graphs |-> graphs, raised |-> ""]
    ELSE
    LET deps == str_items(depends_on)
        missing == first_missing(deps)
        added == _add_dependency(graphs, field_name, file_path, deps)
        cycle == _validate_circular_dependency([k \in {file_path} |-> deps], field_name)
    IN
    IF missing # <<>>
    THEN [out |-> ValidationOutputSchema(file_path, FALSE,
                    <<ValidationErrorSchema("dependent_file_not_found", "$." \o field_name,
                        "File '" \o missing[1] \o "' provided in '" \o field_name
                            \o "' field not found", <<>>)>>, 1),
          graphs |-> graphs, raised |-> ""]
    ELSE IF cycle # <<>>
    THEN [out |-> cycle[1], graphs |-> added, raised |-> ""]
    ELSE [out |-> ValidOutput(file_path), graphs |-> added, raised |-> ""]

\* Variant: the edge is recorded before the listed paths are looked up.
_validate_for_RecordsFirst(graphs, field_name, data, file_path) ==
    IF ~isinstance(data, "dict")
    THEN [out |-> NoOutput, graphs |-> graphs, raised |-> "AttributeError"]
    ELSE
    LET depends_on == dict_get(data, field_name, PyList(<<>>))
        error == _validate_field_type(field_name, depends_on)
    IN
    IF error # <<>>
    THEN [out |-> error[1], graphs |-> graphs, raised |-> ""]
    ELSE
    LET deps == str_items(depends_on)
        missing == first_missing(deps)
        added == _add_dependency(graphs, field_name, file_path, deps)
        cycle == _validate_circular_dependency(added[field_name], field_name)
    IN
    IF missing # <<>>
    THEN [out |-> ValidationOutputSchema(file_path, FALSE,
                    <<ValidationErrorSchema("dependent_file_not_found", "$." \o field_name,
                        "File '" \o missing[1] \o "' provided in '" \o field_name
                            \o "' field not found", <<>>)>>, 1),
          graphs |-> added, raised |-> ""]
    ELSE IF cycle # <<>>
    THEN [out |-> cycle[1], graphs |-> added, raised |-> ""]
    ELSE [out |-> ValidOutput(file_path), graphs |-> added, raised |-> ""]

_validate_for(graphs, field_name, data, file_path) ==
    IF ~isinstance(data, "dict")
    THEN [out |-> NoOutput, graphs |-> graphs, raised |-> "AttributeError"]
    ELSE
    LET depends_on == dict_get(data, field_name, PyList(<<>>))
        error == _validate_field_type(field_name, depends_on)
    IN
    IF error # <<>>
    THEN [out |-> error[1], graphs |-> graphs, raised |-> ""]
    ELSE
    LET deps == str_items(depends_on)
        missing == first_missing(deps)
        added == _add_dependency(graphs, field_name, file_path, deps)
        cycle == _validate_circular_dependency(added[field_name], field_name)
    IN
    IF missing # <<>>
    THEN [out |-> ValidationOutputSchema(file_path, FALSE,
                    <<ValidationErrorSchema("dependent_file_not_found", "$." \o field_name,
                        "File '" \o missing[1] \o "' provided in '" \o field_name
                            \o "' field not found", <<>>)>>, 1),
          graphs |-> graphs, raised |-> ""]
    ELSE IF cycle # <<>>
    THEN [out |-> cycle[1], graphs |-> added, raised |-> ""]
    ELSE [out |-> ValidOutput(file_path), graphs |-> added, raised |-> ""]

(***************************************************************************)
(* FileValidator.validate.  `parsed` is what json.load / yaml.safe_load    *)
(* does with the file's bytes: <<>> when it raises JSONDecodeError or      *)
(* YAMLError, else <<content>>.  Returns the outcome and validated_content.*)
(***************************************************************************)
\* Path(file_path).suffix, for the paths of the model.
suffix(file_path) ==
    CASE file_path = "a.yaml" -> ".yaml"
      [] file_path = "b.json" -> ".json"
      [] file_path = "c.YML" -> ".YML"
      [] file_path = "d.txt" -> ".txt"
      [] file_path = "x.yaml" -> ".yaml"
      [] file_path = "y.yaml" -> ".yaml"

\* str.lower, for the suffixes of the model.
lower(text) ==
    CASE text = ".YML" -> ".yml"
      [] OTHER -> text

FileError(file_path, type, message) ==
    ValidationOutputSchema(file_path, FALSE,
        <<ValidationErrorSchema(type, "$", message, <<>>)>>, 1)

FileValidator_validate(file_path, parsed) ==
    IF file_path \notin ExistingFiles
    THEN [out |-> FileError(file_path, "file_not_found", "'" \o file_path \o "' not found"),
          validated_content |-> None]
    ELSE IF lower(suffix(file_path)) \notin {".json", ".yml", ".yaml"}
    THEN [out |-> FileError(file_path, "unsupported_format",
                    "'" \o file_path \o "' of type '" \o suffix(file_path)
                        \o "' not supported"),
          validated_content |-> None]
    ELSE IF parsed = <<>>
    THEN [out |-> FileError(file_path, "parse_error", "error parsing file"),
          validated_content |-> None]
    ELSE [out |-> ValidOutput(file_path), validated_content |-> parsed[1]]

(***************************************************************************)
(* PydanticSchemaValidator.  model_validate yields pydantic's ErrorDetails *)
(* (type, loc, msg, ctx); loc items are PyStr / PyInt values.              *)
(***************************************************************************)
\* [dt.name for dt in SupportedDataTypes]
SupportedDataTypes == <<"string", "integer", "float", "boolean", "date", "datetime">>

NoCtx == [discriminator |-> "", expected_tags |-> ""]

ErrorDetails(type, loc, msg, ctx) == [type |-> type, loc |-> loc, msg |-> msg, ctx |-> ctx]

__strip_details(error) == <<[type |-> error.type, msg |-> error.msg]>>

\* str.strip("'") on the discriminator pydantic reports ('type').
strip_quotes(text) == IF text = "'type'" THEN "type" ELSE text

RECURSIVE format_loc_items(_, _)
format_loc_items(error_string, loc) ==
    IF loc = <<>> THEN error_string
    ELSE LET loc_item == Head(loc) IN
         format_loc_items(
            IF isinstance(loc_item, "int")
            THEN error_string \o "[" \o ToString(loc_item.n) \o "]"
            ELSE IF isinstance(loc_item, "str") /\ loc_item.s \notin Range(SupportedDataTypes)
            THEN error_string \o "." \o loc_item.s
            ELSE error_string,
            Tail(loc))

\* Variant: the discriminator is not appended for an unknown tag.
__format_loc_as_jsonql_NoDiscriminator(error) == format_loc_items("$", error.loc)

__format_loc_as_jsonql(error) ==
    LET error_string == format_loc_items("$", error.loc) IN
    IF error.type = "union_tag_invalid"
    THEN error_string \o "." \o strip_quotes(error.ctx.discriminator)
    ELSE error_string

\* str(loc_item) inside an f-string
loc_text(loc_item) ==
    IF isinstance(loc_item, "int") THEN ToString(loc_item.n) ELSE loc_item.s

\* Variant: the expected type is spelled as the column kinds are.
exp_type_of_KindNames(type) ==
    CASE type \in {"int_parsing", "int_from_float", "int_type"} -> "integer"
      [] type \in {"float_parsing", "float_type"} -> "float"
      [] type = "bool_parsing" -> "boolean"
      [] type = "string_type" -> "string"
      [] type = "list_type" -> "list"
      [] type = "model_type" -> "model"

\* error["type"].split("_")[0], for the kinds that reach it
exp_type_of(type) ==
    CASE type \in {"int_parsing", "int_from_float", "int_type"} -> "int"
      [] type \in {"float_parsing", "float_type"} -> "float"
      [] type = "bool_parsing" -> "bool"
      [] type = "string_type" -> "string"
      [] type = "list_type" -> "list"
      [] type = "model_type" -> "model"

__format_pydantic_error_as_text(error) ==
    LET loc == IF error.loc = <<>> THEN <<PyStr("$")>> ELSE error.loc
        loc_length == Len(loc)
        last_item == loc_text(loc[loc_length])
    IN
    CASE error.type = "extra_forbidden" ->
            IF loc_length > 1 /\ isinstance(loc[loc_length - 1], "str")
                  /\ loc[loc_length - 1].s \in Range(SupportedDataTypes)
            THEN "'" \o last_item \o "' invalid attribute for '"
                    \o loc[loc_length - 1].s \o "' type"
            ELSE IF loc_length = 1
            THEN "invalid attribute '" \o loc_text(loc[1]) \o "' provided"
            ELSE error.msg
      [] error.type = "missing" ->
            IF loc_length > 0 THEN "'" \o last_item \o "' attribute missing" ELSE error.msg
      [] error.type \in {"int_parsing", "int_from_float", "float_parsing", "bool_parsing"} ->
            IF loc_length > 0
            THEN "'" \o last_item \o "' expected to be '" \o exp_type_of(error.type) \o "' type"
            ELSE error.msg
      [] error.type \in {"int_type", "float_type", "string_type", "list_type", "model_type"} ->
            IF loc_length > 0
            THEN "'" \o last_item \o "' expected to be '"
                    \o (IF exp_type_of(error.type) = "model" THEN "object"
                                                             ELSE exp_type_of(error.type))
                    \o "' type"
            ELSE error.msg
      [] error.type = "union_tag_invalid" ->
            IF error.ctx.expected_tags # ""
            THEN "'" \o strip_quotes(error.ctx.discriminator) \o "' expected to be one of ["
                    \o error.ctx.expected_tags \o "]"
            ELSE error.msg
      [] error.type = "union_tag_not_found" -> "'type' attribute missing"
      [] OTHER -> error.msg

(***************************************************************************)
(* The schema models.  A model is its name, its fields in declaration      *)
(* order, each field's annotation, and the fields without a default.       *)
(***************************************************************************)
\* BaseDataType.model_fields, in declaration order.
BaseDataTypeFields == <<"name", "unique", "primary_key", "nullable", "description">>

\* The fields each data type declares after BaseDataType's.
OwnFields(kind) ==
    CASE kind = "string" -> <<"type", "max_length", "min_length", "pattern">>
      [] kind = "integer" -> <<"type", "minimum", "maximum">>
      [] kind = "float" -> <<"type", "minimum", "maximum", "precision">>
      [] kind = "boolean" -> <<"type">>
      [] kind = "date" -> <<"type", "format">>
      [] kind = "datetime" -> <<"type", "format", "timezone">>

\* The annotation of a field of a data type.
DataTypeAnnotation(kind, field_name) ==
    CASE field_name = "name" -> "str"
      [] field_name \in {"unique", "primary_key", "nullable"} -> "bool"
      [] field_name \in {"description", "pattern", "format", "timezone"} -> "Optional[str]"
      [] field_name = "type" -> "Literal"
      [] field_name \in {"max_length", "min_length", "precision"} -> "Optional[int]"
      [] field_name \in {"minimum", "maximum"} ->
            IF kind = "float" THEN "Optional[float]" ELSE "Optional[int]"

\* SupportedDataTypes[kind].value: StringType, IntegerType, ...
DataType(kind) ==
    LET model_fields == BaseDataTypeFields \o OwnFields(kind) IN
    [name |-> kind,
     fields |-> model_fields,
     annotation |-> [f \in Range(model_fields) |-> DataTypeAnnotation(kind, f)],
     required |-> {"name", "type"}]

\* DatasetSchema.model_fields, in declaration order.
DatasetSchemaFields ==
    <<"fqn", "name", "description", "version", "columns", "metadata", "tags">>

DatasetSchemaAnnotation(field_name) ==
    CASE field_name \in {"fqn", "name", "version"} -> "str"
      [] field_name = "description" -> "Optional[str]"
      [] field_name = "columns" -> "List[DataTypeUnion]"
      [] field_name = "metadata" -> "Optional[Dict]"
      [] field_name = "tags" -> "Optional[List[str]]"

\* The base model: fqn, name and columns have no default.
DatasetSchema ==
    [name |-> "DatasetSchema",
     fields |-> DatasetSchemaFields,
     annotation |-> [f \in Range(DatasetSchemaFields) |-> DatasetSchemaAnnotation(f)],
     required |-> {"fqn", "name", "columns"},
     data_types |-> [kind \in Range(SupportedDataTypes) |-> DataType(kind)]]

\* Variant: the named fields keep their defaults.
__create_dynamic_data_type_KeepsDefaults(base_model, type_name, required_fields) ==
    [name |-> "Dynamic" \o type_name,
     fields |-> base_model.fields,
     annotation |-> base_model.annotation,
     required |-> base_model.required]

\* __create_dynamic_data_type: a named field loses its default and keeps its
\* annotation; every other field keeps its definition.
__create_dynamic_data_type(base_model, type_name, required_fields) ==
    [name |-> "Dynamic" \o type_name,
     fields |-> base_model.fields,
     annotation |-> base_model.annotation,
     required |-> {f \in Range(base_model.fields) :
                        f \in required_fields \/ f \in base_model.required}]

\* get_dynamic_data_types: column_required_attributes.get(kind, []) per kind.
get_dynamic_data_types(cfg) ==
    [kind \in Range(SupportedDataTypes) |->
        __create_dynamic_data_type(DataType(kind), kind,
                                   cfg.column_required_attributes[kind])]

\* get_dynamic_dataset_schema: `columns` is rebuilt over the dynamic data
\* types, required when named and Optional with default None otherwise; every
\* other field is required when named and keeps its definition otherwise.
\* Variant: `columns` is required unless it is named.
get_dynamic_dataset_schema_ColumnsInverted(cfg) ==
    LET required_fields == cfg.model_required_attributes IN
    [name |-> "DynamicDatasetSchema",
     fields |-> DatasetSchemaFields,
     annotation |->
        [f \in Range(DatasetSchemaFields) |->
            IF f = "columns"
            THEN IF f \notin required_fields THEN "List[DataTypeUnion]"
                                             ELSE "Optional[List[DataTypeUnion]]"
            ELSE DatasetSchema.annotation[f]],
     required |->
        {f \in Range(DatasetSchemaFields) :
            IF f = "columns" THEN f \notin required_fields
            ELSE f \in required_fields \/ f \in DatasetSchema.required},
     data_types |-> get_dynamic_data_types(cfg)]

get_dynamic_dataset_schema(cfg) ==
    LET required_fields == cfg.model_required_attributes IN
    [name |-> "DynamicDatasetSchema",
     fields |-> DatasetSchemaFields,
     annotation |->
        [f \in Range(DatasetSchemaFields) |->
            IF f = "columns"
            THEN IF f \in required_fields THEN "List[DataTypeUnion]"
                                          ELSE "Optional[List[DataTypeUnion]]"
            ELSE DatasetSchema.annotation[f]],
     required |->
        {f \in Range(DatasetSchemaFields) :
            IF f = "columns" THEN f \in required_fields
            ELSE f \in required_fields \/ f \in DatasetSchema.required},
     data_types |-> get_dynamic_data_types(cfg)]

(***************************************************************************)
(* model_validate: pydantic's validation (lax mode) of a loaded value      *)
(* against a model, giving the ErrorDetails of the ValidationError in       *)
(* pydantic's order: the declared fields in model order, then the          *)
(* undeclared keys.                                                        *)
(***************************************************************************)
\* Strings pydantic parses as a boolean, an integer, a number.
BoolStrings == {"true", "false"}
IntStrings == {"5"}
FloatStrings == {"5", "1.5"}

Error(type, loc, msg) == <<ErrorDetails(type, loc, msg, NoCtx)>>

\* A value against the annotation of a scalar field.
scalar_errors(annotation, value, loc) ==
    CASE annotation \in {"str", "Optional[str]"} ->
            IF isinstance(value, "str") \/ (annotation = "Optional[str]" /\ value = None)
            THEN <<>>
            ELSE Error("string_type", loc, "Input should be a valid string")
      [] annotation = "bool" ->
            IF \/ isinstance(value, "bool")
               \/ isinstance(value, "int") /\ value.n \in {0, 1}
               \/ isinstance(value, "float") /\ value.tenths \in {0, 10}
               \/ isinstance(value, "str") /\ value.s \in BoolStrings
            THEN <<>>
            ELSE IF value.t \in {"int", "float", "str"}
            THEN Error("bool_parsing", loc,
                       "Input should be a valid boolean, unable to interpret input")
            ELSE Error("bool_type", loc, "Input should be a valid boolean")
      [] annotation = "Optional[int]" ->
            IF \/ value = None
               \/ value.t \in {"int", "bool"}
               \/ isinstance(value, "float") /\ value.tenths % 10 = 0
               \/ isinstance(value, "str") /\ value.s \in IntStrings
            THEN <<>>
            ELSE IF isinstance(value, "float")
            THEN Error("int_from_float", loc,
                       "Input should be a valid integer, got a number with a fractional part")
            ELSE IF isinstance(value, "str")
            THEN Error("int_parsing", loc,
                       "Input should be a valid integer, unable to parse string as an integer")
            ELSE Error("int_type", loc, "Input should be a valid integer")
      [] annotation = "Optional[float]" ->
            IF \/ value = None
               \/ value.t \in {"int", "bool", "float"}
               \/ isinstance(value, "str") /\ value.s \in FloatStrings
            THEN <<>>
            ELSE IF isinstance(value, "str")
            THEN Error("float_parsing", loc,
                       "Input should be a valid number, unable to parse string as a number")
            ELSE Error("float_type", loc, "Input should be a valid number")
      [] annotation = "Optional[Dict]" ->
            IF value = None \/ isinstance(value, "dict") THEN <<>>
            ELSE Error("dict_type", loc, "Input should be a valid dictionary")

\* The items of a List[str], from the i-th on (loc indices count from 0).
RECURSIVE list_str_errors(_, _, _)
list_str_errors(items, i, loc) ==
    IF i > Len(items) THEN <<>>
    ELSE scalar_errors("str", items[i], loc \o <<PyInt(i - 1)>>)
            \o list_str_errors(items, i + 1, loc)

\* pydantic's rendering of the tag it found under the discriminator.
tag_text(value) ==
    IF isinstance(value, "str") THEN value.s
    ELSE IF isinstance(value, "int") THEN ToString(value.n)
    ELSE "?"

ExpectedTags == "'string', 'integer', 'float', 'boolean', 'date', 'datetime'"

RECURSIVE model_fields_errors(_, _, _, _)
RECURSIVE extra_field_errors(_, _)
RECURSIVE columns_errors(_, _, _, _)

\* Variant: keys that are no field are ignored.
model_errors_IgnoreExtra(model, d, loc) == model_fields_errors(model, model.fields, d, loc)

\* An object against a model: its fields, then the keys that are no field.
model_errors(model, d, loc) ==
    model_fields_errors(model, model.fields, d, loc)
        \o extra_field_errors(DOMAIN d \ Range(model.fields), loc)

\* One item of `columns` against the union discriminated by 'type'.
tagged_union_errors(data_types, value, loc) ==
    IF ~isinstance(value, "dict")
    THEN Error("model_attributes_type", loc,
               "Input should be a valid dictionary or object to extract fields from")
    ELSE IF "type" \notin DOMAIN value.d
    THEN <<ErrorDetails("union_tag_not_found", loc,
                "Unable to extract tag using discriminator 'type'",
                [discriminator |-> "'type'", expected_tags |-> ""])>>
    ELSE IF ~(isinstance(value.d["type"], "str")
                /\ value.d["type"].s \in Range(SupportedDataTypes))
    THEN <<ErrorDetails("union_tag_invalid", loc,
                "Input tag '" \o tag_text(value.d["type"])
                    \o "' found using 'type' does not match any of the expected tags: "
                    \o ExpectedTags,
                [discriminator |-> "'type'", expected_tags |-> ExpectedTags])>>
    ELSE model_errors(data_types[value.d["type"].s], value.d,
                      loc \o <<PyStr(value.d["type"].s)>>)

\* The items of `columns`, from the i-th on.
columns_errors(data_types, items, i, loc) ==
    IF i > Len(items) THEN <<>>
    ELSE tagged_union_errors(data_types, items[i], loc \o <<PyInt(i - 1)>>)
            \o columns_errors(data_types, items, i + 1, loc)

\* A present field against its annotation.
field_errors(model, field_name, value, loc) ==
    LET annotation == model.annotation[field_name] IN
    CASE annotation = "Literal" -> <<>>
      [] annotation \in {"List[DataTypeUnion]", "Optional[List[DataTypeUnion]]"} ->
            IF annotation = "Optional[List[DataTypeUnion]]" /\ value = None THEN <<>>
            ELSE IF isinstance(value, "list")
            THEN columns_errors(model.data_types, value.items, 1, loc)
            ELSE Error("list_type", loc, "Input should be a valid list")
      [] annotation = "Optional[List[str]]" ->
            IF value = None THEN <<>>
            ELSE IF isinstance(value, "list") THEN list_str_errors(value.items, 1, loc)
            ELSE Error("list_type", loc, "Input should be a valid list")
      [] OTHER -> scalar_errors(annotation, value, loc)

model_fields_errors(model, fields, d, loc) ==
    IF fields = <<>> THEN <<>>
    ELSE LET field_name == Head(fields)
             here == IF field_name \in DOMAIN d
                     THEN field_errors(model, field_name, d[field_name],
                                       loc \o <<PyStr(field_name)>>)
                     ELSE IF field_name \in model.required
                     THEN Error("missing", loc \o <<PyStr(field_name)>>, "Field required")
                     ELSE <<>>
         IN here \o model_fields_errors(model, Tail(fields), d, loc)

\* The keys of the input that are no field of the model, in the input's order
\* (the model's objects hold at most one such key).
extra_field_errors(keys, loc) ==
    IF keys = {} THEN <<>>
    ELSE LET key == CHOOSE k \in keys : TRUE IN
         Error("extra_forbidden", loc \o <<PyStr(key)>>, "Extra inputs are not permitted")
            \o extra_field_errors(keys \ {key}, loc)

\* model.model_validate(data): the errors of the ValidationError, or <<>>.
model_validate(model, data) ==
    IF ~isinstance(data, "dict")
    THEN Error("model_type", <<>>,
               "Input should be a valid dictionary or instance of " \o model.name)
    ELSE model_errors(model, data.d, <<>>)

\* The output PydanticSchemaValidator.validate builds from pydantic's errors.
\* Variant: the errors are listed last first.
validation_output_Reversed(errors, file_path) ==
    IF errors # <<>>
    THEN ValidationOutputSchema(file_path, FALSE,
            [i \in 1..Len(errors) |->
                ValidationErrorSchema("validation_error",
                    __format_loc_as_jsonql(errors[Len(errors) + 1 - i]),
                    __format_pydantic_error_as_text(errors[Len(errors) + 1 - i]),
                    __strip_details(errors[Len(errors) + 1 - i]))],
            Len(errors))
    ELSE ValidOutput(file_path)

validation_output(errors, file_path) ==
    IF errors # <<>>
    THEN ValidationOutputSchema(file_path, FALSE,
            [i \in 1..Len(errors) |->
                ValidationErrorSchema("validation_error",
                    __format_loc_as_jsonql(errors[i]),
                    __format_pydantic_error_as_text(errors[i]),
                    __strip_details(errors[i]))],
            Len(errors))
    ELSE ValidOutput(file_path)

\* column_required_attributes of Config(): no kind has an override.
NoColumnOverrides == [kind \in Range(SupportedDataTypes) |-> {}]

\* Config(): no required-attribute overrides.
DefaultConfig ==
    [model_required_attributes |-> {}, column_required_attributes |-> NoColumnOverrides]

\* column_required_attributes = {kind: fields}
Override(kind, fields) == [NoColumnOverrides EXCEPT ![kind] = fields]

\* The configurations of the model: root and column overrides that name
\* required fields, optional fields, and a name that is no field.
Configs ==
    {[model_required_attributes |-> m, column_required_attributes |-> c] :
        m \in {{}, {"columns"}, {"description"}, {"fqn", "columns"}, {"bogus"}},
        c \in {NoColumnOverrides,
               Override("integer", {"minimum"}),
               Override("string", {"description", "bogus"}),
               Override("string", {"description"}),
               Override("date", {"name", "type"})}}

\* PydanticSchemaValidator.__init__: self.dataset_schema, built once per config.
dataset_schema == [cfg \in Configs |-> get_dynamic_dataset_schema(cfg)]

\* PydanticSchemaValidator.validate
PydanticSchemaValidator_validate(data, file_path) ==
    validation_output(model_validate(dataset_schema[config], data), file_path)

(***************************************************************************)
(* merge_validation_outputs and RuleSetBasedValidation.                    *)
(***************************************************************************)
RECURSIVE merge_loop(_, _)
merge_loop(acc, outputs) ==
    IF outputs = <<>> THEN acc
    ELSE LET output == Head(outputs) IN
         merge_loop(
            [file_path |-> IF acc.file_path # "" THEN acc.file_path ELSE output.file_path,
             valid |-> acc.valid /\ output.valid,
             error_count |-> acc.error_count + output.error_count,
             errors |-> acc.errors \o output.errors],
            Tail(outputs))

\* Variant: the merged outcome is valid when any of the outcomes is.
merge_validation_outputs_AnyValid(outputs) ==
    [merge_loop(ValidationOutputSchema("", TRUE, <<>>, 0), outputs)
        EXCEPT !.valid = \E i \in 1..Len(outputs) : outputs[i].valid]

merge_validation_outputs(outputs) ==
    merge_loop(ValidationOutputSchema("", TRUE, <<>>, 0), outputs)

\* ValidationRuleSetEnum
ValidationRuleSetEnum == {"PSX_VAL1", "PSX_VAL2"}

\* Variant: the default rule set is the structural validator alone.
DEFAULT_RULESETS_StructuralOnly == <<"PSX_VAL1">>

DEFAULT_RULESETS == <<"PSX_VAL1", "PSX_VAL2">>

\* [rule for rule in rule_apply_enums if rule not in rule_ignore_enums]
RECURSIVE without_ignored(_, _)
without_ignored(rules, rule_ignore) ==
    IF rules = <<>> THEN <<>>
    ELSE (IF Head(rules) \in rule_ignore THEN <<>> ELSE <<Head(rules)>>)
            \o without_ignored(Tail(rules), rule_ignore)

\* Variant: the ignore-list is applied to the default set only.
rulesets_ApplyWins(rule_apply, rule_ignore) ==
    IF rule_apply # <<>> THEN rule_apply
    ELSE without_ignored(DEFAULT_RULESETS, rule_ignore)

rulesets(rule_apply, rule_ignore) ==
    without_ignored(IF rule_apply # <<>> THEN rule_apply ELSE DEFAULT_RULESETS, rule_ignore)

\* Variant: a validator that reports invalid does not end the loop; the later
\* validators still run and the first failure is reported at the end.
RECURSIVE run_validators_KeepGoing(_, _, _, _, _, _)
run_validators_KeepGoing(k, rules, maps, data, file_path, file_validator_output) ==
    IF k > Len(rules)
    THEN [out |-> file_validator_output, maps |-> maps, invoked |-> <<>>, raised |-> "",
          outs |-> <<>>]
    ELSE
    LET r == IF rules[k] = "PSX_VAL1"
             THEN [out |-> PydanticSchemaValidator_validate(data, file_path),
                   map |-> EmptyMap, raised |-> ""]
             ELSE UniqueFQNValidator_validate(maps[k], data, file_path)
        after == IF rules[k] = "PSX_VAL2" THEN [maps EXCEPT ![k] = r.map] ELSE maps
        rest == run_validators_KeepGoing(k + 1, rules, after, data, file_path,
                                         file_validator_output)
    IN
    IF r.raised # ""
    THEN [out |-> NoOutput, maps |-> maps, invoked |-> <<k>>, raised |-> r.raised,
          outs |-> <<>>]
    ELSE [rest EXCEPT !.invoked = <<k>> \o @, !.outs = <<r.out>> \o @,
                      !.out = IF r.out.valid THEN @
                              ELSE merge_validation_outputs(<<file_validator_output, r.out>>)]

\* for validator in self.__validators: ..., from the k-th validator on.  Returns
\* the outcome, the registries, the indices of the validators invoked, the
\* outcomes they returned, and the exception that ended the loop, if any.
RECURSIVE run_validators(_, _, _, _, _, _)

\* The loop body once the k-th validator has returned (or raised) r.
after_validator(k, rules, maps, data, file_path, file_validator_output, r) ==
    LET after == IF rules[k] = "PSX_VAL2" THEN [maps EXCEPT ![k] = r.map] ELSE maps IN
    IF r.raised # ""
    THEN [out |-> NoOutput, maps |-> maps, invoked |-> <<k>>, raised |-> r.raised,
          outs |-> <<>>]
    ELSE IF ~r.out.valid
    THEN [out |-> merge_validation_outputs(<<file_validator_output, r.out>>),
          maps |-> after, invoked |-> <<k>>, raised |-> "", outs |-> <<r.out>>]
    ELSE [run_validators(k + 1, rules, after, data, file_path, file_validator_output)
            EXCEPT !.invoked = <<k>> \o @, !.outs = <<r.out>> \o @]

run_validators(k, rules, maps, data, file_path, file_validator_output) ==
    IF k > Len(rules)
    THEN [out |-> file_validator_output, maps |-> maps, invoked |-> <<>>, raised |-> "",
          outs |-> <<>>]
    ELSE after_validator(k, rules, maps, data, file_path, file_validator_output,
            IF rules[k] = "PSX_VAL1"
            THEN [out |-> PydanticSchemaValidator_validate(data, file_path),
                  map |-> EmptyMap, raised |-> ""]
            ELSE UniqueFQNValidator_validate(maps[k], data, file_path))

\* Variant: the claims a file made are released when one of its rules fails.
RuleSetBasedValidation_validate_file_ReleaseOnFailure(rules, maps, file_path, parsed) ==
    LET file_validator == FileValidator_validate(file_path, parsed)
        content == file_validator.validated_content
        r == run_validators(1, rules, maps, IF truthy(content) THEN content ELSE EmptyDict,
                            file_path, file_validator.out)
    IN
    IF ~file_validator.out.valid
    THEN [out |-> file_validator.out, maps |-> maps, invoked |-> <<>>, raised |-> "",
          outs |-> <<>>]
    ELSE IF r.raised = "" /\ ~r.out.valid THEN [r EXCEPT !.maps = maps]
    ELSE r

\* Variant: a failed load does not end the call; the rules run on the empty record.
RuleSetBasedValidation_validate_file_NoShortCircuit(rules, maps, file_path, parsed) ==
    LET file_validator == FileValidator_validate(file_path, parsed)
        content == file_validator.validated_content
    IN
    run_validators(1, rules, maps, IF truthy(content) THEN content ELSE EmptyDict,
                   file_path, file_validator.out)

\* RuleSetBasedValidation.validate_file
RuleSetBasedValidation_validate_file(rules, maps, file_path, parsed) ==
    LET file_validator == FileValidator_validate(file_path, parsed)
        content == file_validator.validated_content
    IN
    IF ~file_validator.out.valid
    THEN [out |-> file_validator.out, maps |-> maps, invoked |-> <<>>, raised |-> "",
          outs |-> <<>>]
    ELSE run_validators(1, rules, maps, IF truthy(content) THEN content ELSE EmptyDict,
                        file_path, file_validator.out)

(***************************************************************************)
(* Summary (summary.py) and OutputControl (output.py).                     *)
(***************************************************************************)
\* Summary.__init__
Summary ==
    [validated_file_count |-> 0, valid_file_count |-> 0, invalid_file_count |-> 0,
     error_files |-> <<>>]

\* Variant: the file of every call is listed in error_files.
add_record_ListsEveryFile(self, valid, file_path) ==
    [validated_file_count |-> self.validated_file_count + 1,
     valid_file_count |-> self.valid_file_count + (IF valid THEN 1 ELSE 0),
     invalid_file_count |-> self.invalid_file_count + (IF valid THEN 0 ELSE 1),
     error_files |-> Append(self.error_files, file_path)]

\* Summary.add_record
add_record(self, valid, file_path) ==
    IF valid
    THEN [self EXCEPT !.validated_file_count = @ + 1, !.valid_file_count = @ + 1]
    ELSE [self EXCEPT !.validated_file_count = @ + 1, !.invalid_file_count = @ + 1,
                      !.error_files = Append(@, file_path)]

\* OutputControl.__init__
OutputControl ==
    [output_format |-> "TEXT", output_level |-> "QUIET", fail_mode |-> "FAIL_AFTER",
     show_summary |-> TRUE]

\* Python's `value or default`
py_or(value, default) == IF truthy(value) THEN value ELSE default

\* OutputControl.set_from_inputs; every input is None or a value of its type.
set_from_inputs(self, output_format, use_json, quiet, verbose, silent, fail_fast, fail_never, fail_after, no_summary, show_summary) ==
    LET format_ == py_or(output_format, PyStr("text"))
        use_json_ == py_or(use_json, PyBool(FALSE))
        quiet_ == py_or(quiet, PyBool(TRUE))
        verbose_ == py_or(verbose, PyBool(FALSE))
        silent_ == py_or(silent, PyBool(FALSE))
        fail_fast_ == py_or(fail_fast, PyBool(FALSE))
        fail_never_ == py_or(fail_never, PyBool(FALSE))
        no_summary_ == py_or(no_summary, PyBool(FALSE))
        level == IF silent_.b THEN "SILENT"
                 ELSE IF verbose_.b THEN "VERBOSE"
                 ELSE IF quiet_.b THEN "QUIET"
                 ELSE self.output_level
    IN
    [output_format |-> IF use_json_.b \/ format_.s = "json" THEN "JSON" ELSE "TEXT",
     output_level |-> level,
     fail_mode |-> IF fail_fast_.b THEN "FAIL_FAST"
                   ELSE IF fail_never_.b THEN "FAIL_NEVER"
                   ELSE "FAIL_AFTER",
     show_summary |->
        IF no_summary_.b \/ (show_summary = None /\ level = "SILENT") THEN FALSE
        ELSE IF show_summary = PyBool(TRUE) THEN TRUE
        ELSE IF show_summary = None /\ level \in {"QUIET", "VERBOSE"} THEN TRUE
        ELSE FALSE]

\* The run has not ended.
Running == -1

\* One thing printed: an outcome, the summary or a closing message.  The
\* layout of the line (colours, box, JSON text) is left out.
Echo(what, text) == [what |-> what, text |-> text]

\* OutputControl.__print_formatted_validation_output: in text, a line for the
\* file and one per error; in JSON, the outcome on one line.
print_formatted_validation_output(self, outcome) ==
    IF self.output_format = "JSON"
    THEN <<Echo("json", outcome.file_path)>>
    ELSE IF ~outcome.valid
    THEN <<Echo("invalid", outcome.file_path)>>
            \o [i \in 1..Len(outcome.errors) |->
                    Echo("error", outcome.errors[i].error_at \o " : "
                                    \o outcome.errors[i].message)]
    ELSE <<Echo("valid", outcome.file_path)>>

\* OutputControl.print_summary
print_summary(self, summ) ==
    IF self.show_summary
    THEN <<Echo(IF self.output_format = "JSON" THEN "summary_json" ELSE "summary_box",
                "[" \o ToString(summ.valid_file_count) \o " / "
                    \o ToString(summ.validated_file_count) \o "] ["
                    \o ToString(summ.invalid_file_count) \o " / "
                    \o ToString(summ.validated_file_count) \o "]")>>
    ELSE <<>>

\* OutputControl.end_control: what it prints, and whether it raises
\* click.ClickException (exit code 1) or returns (exit code 0).
end_control(self, summ) ==
    IF summ.invalid_file_count > 0
    THEN IF self.fail_mode \in {"FAIL_AFTER", "FAIL_FAST"}
         THEN [exit_code |-> 1,
               echoed |-> IF self.show_summary THEN print_summary(self, summ) ELSE <<>>]
         ELSE [exit_code |-> 0,
               echoed |-> IF /\ self.fail_mode = "FAIL_NEVER"
                             /\ self.output_format = "TEXT"
                             /\ (self.output_level # "SILENT" \/ self.show_summary)
                          THEN <<Echo("message", "Validation completed with errors!")>>
                          ELSE <<>>]
    ELSE [exit_code |-> 0,
          echoed |-> IF /\ self.output_format = "TEXT"
                        /\ (self.output_level # "SILENT" \/ self.show_summary)
                     THEN <<Echo("message", "Validation completed successfully!")>>
                     ELSE <<>>]

\* Variant: an invalid outcome never ends the run.
print_validation_output_NeverEnds(self, summ, outcome) ==
    [summary |-> add_record(summ, outcome.valid, outcome.file_path),
     echoed |-> <<>>, exit_code |-> Running]

\* OutputControl.print_validation_output: the summary after the call, what
\* was printed, and the exit code when end_control raised inside it.
print_validation_output(self, summ, outcome) ==
    IF ~outcome.valid
    THEN LET recorded == add_record(summ, FALSE, outcome.file_path)
             printed == IF self.output_level \in {"QUIET", "VERBOSE"}
                        THEN print_formatted_validation_output(self, outcome)
                        ELSE <<>>
             ended == end_control(self, recorded)
         IN
         IF self.fail_mode = "FAIL_FAST"
         THEN [summary |-> recorded, echoed |-> printed \o ended.echoed,
               exit_code |-> IF ended.exit_code = 1 THEN 1 ELSE Running]
         ELSE [summary |-> recorded, echoed |-> printed, exit_code |-> Running]
    ELSE [summary |-> add_record(summ, TRUE, outcome.file_path),
          echoed |-> IF self.output_level = "VERBOSE" \/ self.output_format = "JSON"
                     THEN print_formatted_validation_output(self, outcome)
                     ELSE <<>>,
          exit_code |-> Running]

\* No summary is kept and no output controller runs.
NoBatch ==
    /\ summary = Summary
    /\ output_control = OutputControl
    /\ stdout = <<>>
    /\ exit_code = Running
    /\ add_calls = <<>>

(***************************************************************************)
(* Inputs of the direct validator calls.                                   *)
(***************************************************************************)
SchemaFiles == {"a.yaml", "b.json", "c.YML"}

FqnValues ==
    {None, PyInt(7), PyList(<<PyStr("a.b")>>), PyStr("a.b"), PyStr("c.d")}

\* Records handed to UniqueFQNValidator.validate: fqn absent, or any FqnValues.
FqnRecords ==
    {PyDict([name |-> PyStr("T")])}
        \cup {PyDict([name |-> PyStr("T"), fqn |-> v]) : v \in FqnValues}

\* The fields of DependsOnSchemaValidator and DependentsSchemaValidator.
Directions == {"depends_on", "dependents"}

EmptyGraph == [k \in {} |-> <<>>]

\* Values of a depends_on / dependents field: not a list, a list holding a
\* non-string, and lists of paths (x.yaml and y.yaml do not exist).
NonListValues == {None, PyStr("x.yaml")}

NonStringLists == {PyList(<<PyStr("x.yaml"), PyInt(1)>>)}

PathLists ==
    {<<"a.yaml">>, <<"b.json">>, <<"c.YML">>, <<"b.json", "c.YML">>,
     <<"a.yaml", "x.yaml">>, <<"x.yaml", "y.yaml">>, <<"y.yaml", "x.yaml">>}

PyStrList(paths) == PyList([i \in 1..Len(paths) |-> PyStr(paths[i])])

FieldValues == NonListValues \cup NonStringLists \cup {PyStrList(l) : l \in PathLists}

OtherDirection(f) == CHOOSE g \in Directions : g # f

\* Records handed to the validator of field_name: the field absent, or any
\* FieldValues; every record also carries the other direction's field.
DependencyRecords(field_name) ==
    LET base == dict_set([name |-> PyStr("T")], OtherDirection(field_name),
                         PyStrList(<<"a.yaml">>))
    IN  {PyDict(base)} \cup {PyDict(dict_set(base, field_name, v)) : v \in FieldValues}

DependsOnRecords == DependencyRecords("depends_on")

DependentsRecords == DependencyRecords("dependents")

\* Paths handed to validate_file (x.yaml does not exist, d.txt is no schema format).
FilePaths == ExistingFiles \cup {"x.yaml"}

without_key(d, key) == [k \in DOMAIN d \ {key} |-> d[k]]

\* Loaded objects: well-formed records with two different fqns, and records
\* with a number for fqn, without fqn, without `name`, with an undeclared key.
WellFormed(fqn) == [fqn |-> fqn, name |-> PyStr("T"), columns |-> PyList(<<>>)]

FileRecords ==
    {PyDict(WellFormed(PyStr("a.b"))),
     PyDict(WellFormed(PyStr("c.d"))),
     PyDict(WellFormed(PyInt(7))),
     PyDict(without_key(WellFormed(None), "fqn")),
     PyDict(without_key(WellFormed(PyStr("a.b")), "name")),
     PyDict(dict_set(WellFormed(PyStr("c.d")), "extra", PyStr("x")))}

\* What a file can hold: nothing (null), a list, or an object.
FileContents == {None, PyList(<<PyInt(1)>>)} \cup FileRecords

\* What parsing a file gives: a parse failure or a content; files that are
\* never opened are given no content.
ParseResults(file_path) ==
    IF file_path \in SchemaFiles
    THEN {<<>>} \cup {<<c>> : c \in FileContents}
    ELSE {<<>>}

\* The standalone UniqueFQNValidator instance (constructed directly, as the tests do).
Standalone == 0

\* History: the file_path of the first call on an instance that carried fqn.
SeenAfter(seen, data, file_path) ==
    IF isinstance(data, "dict") /\ isinstance(dict_get(data, "fqn", None), "str")
          /\ dict_get(data, "fqn", None).s \notin DOMAIN seen
    THEN dict_set(seen, dict_get(data, "fqn", None).s, file_path)
    ELSE seen

\* History: the earlier claimant of data's fqn, if any call carried it before.
PriorOf(seen, data) ==
    IF isinstance(data, "dict") /\ isinstance(dict_get(data, "fqn", None), "str")
          /\ dict_get(data, "fqn", None).s \in DOMAIN seen
    THEN <<seen[dict_get(data, "fqn", None).s]>>
    ELSE <<>>

NoCall ==
    [op |-> "init", self |-> 0, field |-> "", data |-> None, file_path |-> "",
     out |-> NoOutput, raised |-> "", invoked |-> <<>>, prior |-> <<>>, parsed |-> <<>>,
     outs |-> <<>>, details |-> <<>>]

\* No command line: the validators are constructed directly, as the tests do.
NoCli == [command |-> "", rule_apply |-> <<>>, rule_ignore |-> {}]

\* State after construction of the validators: empty registry, empty graphs.
InitStandalone ==
    /\ cli_args = NoCli
    /\ config = DefaultConfig
    /\ apply_rules = <<>>
    /\ fqn_to_file_map = [i \in {Standalone} |-> EmptyMap]
    /\ first_seen = [i \in {Standalone} |-> EmptyMap]
    /\ sorted_graph = [f \in Directions |-> EmptyGraph]
    /\ last_insert = [f \in Directions |-> "none"]
    /\ last = NoCall
    /\ ncalls = 0
    /\ NoBatch

\* A direct call ufv.validate(data, file_path) on the instance `self`.
UniqueFQN_validate ==
    /\ ncalls < MaxCalls
    /\ \E self \in {Standalone}, data \in FqnRecords, file_path \in SchemaFiles :
         \E r \in {UniqueFQNValidator_validate(fqn_to_file_map[self], data, file_path)} :
         /\ fqn_to_file_map' = [fqn_to_file_map EXCEPT ![self] = r.map]
         /\ first_seen' = [first_seen EXCEPT ![self] = SeenAfter(@, data, file_path)]
         /\ last' = [op |-> "UniqueFQNValidator.validate", self |-> self, field |-> "fqn",
                     data |-> data, file_path |-> file_path, out |-> r.out,
                     raised |-> r.raised, invoked |-> <<>>,
                     prior |-> PriorOf(first_seen[self], data), parsed |-> <<>>,
                     outs |-> <<>>, details |-> <<>>]
    /\ ncalls' = ncalls + 1
    /\ UNCHANGED <<cli_args, config, apply_rules, sorted_graph, last_insert>>
    /\ UNCHANGED batch_vars

NextFQN == UniqueFQN_validate

SpecFQN == InitStandalone /\ [][NextFQN]_vars

\* History: how a call that recorded an edge ended.
InsertResult(before, r) ==
    IF r.raised # "" THEN before
    ELSE IF r.out.valid THEN "valid"
    ELSE IF r.out.errors[1].type = "circular_dependency_detected"
    THEN "circular_dependency_detected"
    ELSE before

\* A direct call validate(data, file_path) on the validator of `field_name`.
DependencyValidator_validate(field_name, records) ==
    /\ ncalls < MaxCalls
    /\ \E data \in records, file_path \in SchemaFiles :
         \E r \in {_validate_for(sorted_graph, field_name, data, file_path)} :
         /\ sorted_graph' = r.graphs
         /\ last_insert' = [last_insert EXCEPT
                                ![field_name] = InsertResult(@, r)]
         /\ last' = [op |-> "DependencyValidator.validate", self |-> 0,
                     field |-> field_name, data |-> data, file_path |-> file_path,
                     out |-> r.out, raised |-> r.raised, invoked |-> <<>>,
                     prior |-> <<>>, parsed |-> <<>>,
                     outs |-> <<>>, details |-> <<>>]
    /\ ncalls' = ncalls + 1
    /\ UNCHANGED <<cli_args, config, apply_rules, fqn_to_file_map, first_seen>>
    /\ UNCHANGED batch_vars

\* DependsOnSchemaValidator.validate
DependsOnSchemaValidator_validate ==
    DependencyValidator_validate("depends_on", DependsOnRecords)

\* DependentsSchemaValidator.validate
DependentsSchemaValidator_validate ==
    DependencyValidator_validate("dependents", DependentsRecords)

NextDep == DependsOnSchemaValidator_validate \/ DependentsSchemaValidator_validate

SpecDep == InitStandalone /\ [][NextDep]_vars

\* Direct calls of the three stateful validators, in any order.
NextRules == NextFQN \/ NextDep

SpecRules == InitStandalone /\ [][NextRules]_vars

\* The rule lists the command line can build: --rule-apply any number of times
\* (up to MaxRules), --rule-ignore any set of rules.
RECURSIVE SeqsUpTo(_, _)
SeqsUpTo(S, n) ==
    IF n = 0 THEN {<<>>}
    ELSE SeqsUpTo(S, n - 1) \cup {Append(q, x) : q \in {p \in SeqsUpTo(S, n - 1) : Len(p) = n - 1}, x \in S}

RuleLists ==
    {rulesets(rule_apply, rule_ignore) :
        rule_apply \in SeqsUpTo(ValidationRuleSetEnum, MaxRules),
        rule_ignore \in SUBSET ValidationRuleSetEnum}

\* The UniqueFQNValidator instances: the standalone one, and validators[k] of
\* the orchestrator for every k with rules[k] = PSX_VAL2.
FqnInstances(rules) == {Standalone} \cup {k \in 1..Len(rules) : rules[k] = "PSX_VAL2"}

\* State after RuleSetBasedValidation(config, apply_rules) is constructed.
Init ==
    /\ cli_args = NoCli
    /\ config = DefaultConfig
    /\ apply_rules \in RuleLists
    /\ fqn_to_file_map = [i \in FqnInstances(apply_rules) |-> EmptyMap]
    /\ first_seen = [i \in FqnInstances(apply_rules) |-> EmptyMap]
    /\ sorted_graph = [f \in Directions |-> EmptyGraph]
    /\ last_insert = [f \in Directions |-> "none"]
    /\ last = NoCall
    /\ ncalls = 0
    /\ NoBatch

\* History: the data the validators of validate_file were given.
RuleData(parsed) ==
    IF parsed # <<>> /\ truthy(parsed[1]) THEN parsed[1] ELSE EmptyDict

\* orchestrator.validate_file(file_path), the file parsing to `parsed`.
validate_file ==
    /\ ncalls < MaxCalls
    /\ \E file_path \in FilePaths :
       \E parsed \in ParseResults(file_path) :
       \E r \in {RuleSetBasedValidation_validate_file(
                    apply_rules, fqn_to_file_map, file_path, parsed)} :
         /\ fqn_to_file_map' = r.maps
         /\ first_seen' =
              [i \in DOMAIN first_seen |->
                  IF i \in Range(r.invoked)
                  THEN SeenAfter(first_seen[i], RuleData(parsed), file_path)
                  ELSE first_seen[i]]
         /\ last' = [op |-> "validate_file", self |-> 0, field |-> "",
                     data |-> RuleData(parsed), file_path |-> file_path,
                     out |-> r.out, raised |-> r.raised, invoked |-> r.invoked,
                     prior |-> <<>>, parsed |-> parsed,
                     outs |-> r.outs, details |-> <<>>]
    /\ ncalls' = ncalls + 1
    /\ UNCHANGED <<cli_args, config, apply_rules, sorted_graph, last_insert>>
    /\ UNCHANGED batch_vars

Next == validate_file \/ UniqueFQN_validate

Spec == Init /\ [][Next]_vars

\* The options of one `schemax validate` invocation: --rule-apply any number of
\* times (up to MaxRules), --rule-ignore any set of rules.
CliArgs ==
    {[command |-> "validate", rule_apply |-> rule_apply, rule_ignore |-> rule_ignore] :
        rule_apply \in SeqsUpTo(ValidationRuleSetEnum, MaxRules),
        rule_ignore \in SUBSET ValidationRuleSetEnum}

\* State of one invocation once the rules are selected and the batch's
\* orchestrator is constructed from them.
InitCli ==
    /\ cli_args \in CliArgs
    /\ config = DefaultConfig
    /\ apply_rules = rulesets(cli_args.rule_apply, cli_args.rule_ignore)
    /\ fqn_to_file_map = [i \in FqnInstances(apply_rules) |-> EmptyMap]
    /\ first_seen = [i \in FqnInstances(apply_rules) |-> EmptyMap]
    /\ sorted_graph = [f \in Directions |-> EmptyGraph]
    /\ last_insert = [f \in Directions |-> "none"]
    /\ last = NoCall
    /\ ncalls = 0
    /\ NoBatch

\* for path in file_paths: one file of the batch is validated.
NextCli == validate_file

SpecCli == InitCli /\ [][NextCli]_vars

(***************************************************************************)
(* Direct calls of PydanticSchemaValidator.validate, under every config.   *)
(***************************************************************************)
\* A column of the given kind with the fields every kind requires.
Col(kind) == [name |-> PyStr("c"), type |-> PyStr(kind)]

\* Columns: well-formed ones of every kind; an undeclared field under every
\* kind, and one named like a kind; numbers, strings and flags of the wrong
\* type; a missing or unknown `type`; a missing `name`; a column that is no object.
ColumnValues ==
    {PyDict(Col(kind)) : kind \in Range(SupportedDataTypes)}
    \cup {PyDict(dict_set(Col(kind), "extra_field", PyStr("x"))) :
                kind \in Range(SupportedDataTypes)}
    \cup {PyDict(dict_set(Col("integer"), "float", PyInt(1)))}
    \cup {PyDict(dict_set(Col("integer"), "minimum", v)) :
                v \in {PyInt(3), PyStr("x"), PyFloat(15), PyList(<<>>)}}
    \cup {PyDict(dict_set(Col("float"), "minimum", v)) :
                v \in {PyFloat(15), PyStr("x"), PyList(<<>>)}}
    \cup {PyDict(dict_set(Col("string"), "pattern", PyInt(1))),
          PyDict(dict_set(Col("string"), "description", None)),
          PyDict(dict_set(Col("string"), "unique", PyStr("x"))),
          PyDict(dict_set(Col("string"), "unique", PyList(<<>>))),
          PyDict(dict_set(Col("date"), "format", PyInt(1))),
          PyDict(without_key(Col("string"), "type")),
          PyDict(dict_set(Col("string"), "type", PyStr("text"))),
          PyDict(dict_set(Col("string"), "type", PyInt(1))),
          PyDict(without_key(Col("integer"), "name")),
          PyDict(without_key(Col("date"), "name")),
          PyInt(1)}

\* Root objects with no columns: well-formed; `columns` absent, null or a
\* string; root fields absent or of the wrong type; undeclared root fields.
RootValues ==
    {PyDict(WellFormed(PyStr("a.b"))),
     PyDict(without_key(WellFormed(PyStr("a.b")), "columns")),
     PyDict(dict_set(WellFormed(PyStr("a.b")), "columns", None)),
     PyDict(dict_set(WellFormed(PyStr("a.b")), "columns", PyStr("x"))),
     PyDict(without_key(WellFormed(PyStr("a.b")), "fqn")),
     PyDict(WellFormed(PyInt(7))),
     PyDict(dict_set(WellFormed(PyStr("a.b")), "extra", PyStr("x"))),
     PyDict(dict_set(without_key(WellFormed(PyStr("a.b")), "fqn"), "extra", PyStr("x"))),
     PyDict(dict_set(WellFormed(PyStr("a.b")), "date", PyStr("x"))),
     PyDict(dict_set(WellFormed(PyStr("a.b")), "description", None)),
     PyDict(dict_set(WellFormed(PyStr("a.b")), "description", PyInt(1))),
     PyDict(dict_set(WellFormed(PyStr("a.b")), "metadata", PyInt(5))),
     PyDict(dict_set(WellFormed(PyStr("a.b")), "tags", PyList(<<PyStr("t"), PyInt(1)>>))),
     PyDict(dict_set(WellFormed(PyStr("a.b")), "tags", PyStr("x")))}

\* The data handed to PydanticSchemaValidator.validate: the root objects, a
\* well-formed root around one column or two, and values that are no object.
SchemaRecords ==
    RootValues
    \cup {PyDict(dict_set(WellFormed(PyStr("a.b")), "columns", PyList(<<c>>))) :
                c \in ColumnValues}
    \cup {PyDict(dict_set(WellFormed(PyStr("a.b")), "columns", PyList(cs))) :
                cs \in {<<PyDict(without_key(Col("date"), "type")),
                          PyDict(without_key(Col("date"), "name"))>>,
                        <<PyDict(Col("string")),
                          PyDict(dict_set(Col("integer"), "minimum", PyStr("x")))>>,
                        <<PyDict(dict_set(dict_set(Col("string"), "min_length", PyStr("x")),
                                          "max_length", PyStr("x"))),
                          PyDict(dict_set(dict_set(Col("integer"), "extra_field", PyStr("x")),
                                          "maximum", PyStr("x")))>>}}
    \cup {PyDict(dict_set(dict_set(without_key(WellFormed(PyStr("a.b")), "fqn"),
                                   "tags", PyList(<<PyInt(1), PyInt(2)>>)),
                          "columns", PyList(<<PyInt(1), PyDict(without_key(Col("date"), "name"))>>)))}
    \cup {PyList(<<>>), PyInt(100), PyStr("some_string")}

\* State after PydanticSchemaValidator(config) is constructed.
InitSchema ==
    /\ cli_args = NoCli
    /\ config \in Configs
    /\ apply_rules = <<>>
    /\ fqn_to_file_map = [i \in {Standalone} |-> EmptyMap]
    /\ first_seen = [i \in {Standalone} |-> EmptyMap]
    /\ sorted_graph = [f \in Directions |-> EmptyGraph]
    /\ last_insert = [f \in Directions |-> "none"]
    /\ last = NoCall
    /\ ncalls = 0
    /\ NoBatch

\* A direct call psv.validate(data, file_path); `details` keeps pydantic's errors.
PydanticSchema_validate ==
    /\ ncalls < MaxCalls
    /\ \E data \in SchemaRecords, file_path \in {"a.yaml"} :
         \E out \in {PydanticSchemaValidator_validate(data, file_path)} :
         last' = [op |-> "PydanticSchemaValidator.validate", self |-> 0, field |-> "",
                  data |-> data, file_path |-> file_path, out |-> out, raised |-> "",
                  invoked |-> <<>>, prior |-> <<>>, parsed |-> <<>>, outs |-> <<>>,
                  details |-> model_validate(dataset_schema[config], data)]
    /\ ncalls' = ncalls + 1
    /\ UNCHANGED <<cli_args, config, apply_rules, fqn_to_file_map, first_seen,
                   sorted_graph, last_insert>>
    /\ UNCHANGED batch_vars

NextSchema == PydanticSchema_validate

SpecSchema == InitSchema /\ [][NextSchema]_vars

(***************************************************************************)
(* Direct calls of Summary.add_record.                                     *)
(***************************************************************************)
\* The variables of the validators, while only the summary and the output
\* controller run.
engine_vars ==
    <<cli_args, config, apply_rules, fqn_to_file_map, first_seen, sorted_graph,
      last_insert, last, ncalls>>

NoEngine ==
    /\ cli_args = NoCli
    /\ config = DefaultConfig
    /\ apply_rules = <<>>
    /\ fqn_to_file_map = [i \in {Standalone} |-> EmptyMap]
    /\ first_seen = [i \in {Standalone} |-> EmptyMap]
    /\ sorted_graph = [f \in Directions |-> EmptyGraph]
    /\ last_insert = [f \in Directions |-> "none"]
    /\ last = NoCall
    /\ ncalls = 0

\* State after Summary() is constructed.
InitSummary == NoEngine /\ NoBatch

\* A call summary.add_record(valid, file_path).
Summary_add_record ==
    /\ Len(add_calls) < MaxCalls
    /\ \E valid \in BOOLEAN, file_path \in SchemaFiles :
         /\ summary' = add_record(summary, valid, file_path)
         /\ add_calls' = Append(add_calls, [valid |-> valid, file_path |-> file_path])
    /\ UNCHANGED <<output_control, stdout, exit_code>>
    /\ UNCHANGED engine_vars

NextSummary == Summary_add_record

SpecSummary == InitSummary /\ [][NextSummary]_vars

(***************************************************************************)
(* A batch of outcomes fed in order to the output controller, as the loop  *)
(* of cli.validate does, then end_control.                                 *)
(***************************************************************************)
\* The values an optional flag is passed as.
FlagValues == {None, PyBool(TRUE)}

\* The outcomes fed to the controller: valid ones, and invalid ones with one
\* error, for two files.
BatchOutcomes ==
    {ValidOutput(file_path) : file_path \in {"a.yaml", "b.json"}}
    \cup {FileError(file_path, "parse_error", "error parsing file") :
                file_path \in {"a.yaml", "b.json"}}

\* State after OutputControl() is constructed and set_from_inputs has run.
InitOutput ==
    /\ NoEngine
    /\ summary = Summary
    /\ \E output_format \in {None, PyStr("text"), PyStr("json")},
          use_json \in FlagValues, verbose \in FlagValues, silent \in FlagValues,
          fail_fast \in FlagValues, fail_never \in FlagValues,
          fail_after \in {None, PyBool(TRUE), PyBool(FALSE)},
          no_summary \in FlagValues,
          show_summary \in {None, PyBool(TRUE), PyBool(FALSE)} :
         output_control =
            set_from_inputs(OutputControl, output_format, use_json, None, verbose,
                            silent, fail_fast, fail_never, fail_after, no_summary,
                            show_summary)
    /\ stdout = <<>>
    /\ exit_code = Running
    /\ add_calls = <<>>

\* One turn of the loop: output.print_validation_output(validation_output).
\* An exception raised inside ends the loop.
OutputControl_print_validation_output ==
    /\ exit_code = Running
    /\ Len(add_calls) < MaxCalls
    /\ \E outcome \in BatchOutcomes :
       \E r \in {print_validation_output(output_control, summary, outcome)} :
         /\ summary' = r.summary
         /\ stdout' = stdout \o r.echoed
         /\ exit_code' = r.exit_code
         /\ add_calls' = Append(add_calls, [valid |-> outcome.valid,
                                    file_path |-> outcome.file_path])
    /\ UNCHANGED output_control
    /\ UNCHANGED engine_vars

\* After the loop: output.end_control().
OutputControl_end_control ==
    /\ exit_code = Running
    /\ \E r \in {end_control(output_control, summary)} :
         /\ stdout' = stdout \o r.echoed
         /\ exit_code' = r.exit_code
    /\ UNCHANGED <<summary, output_control, add_calls>>
    /\ UNCHANGED engine_vars

NextOutput == OutputControl_print_validation_output \/ OutputControl_end_control

SpecOutput == InitOutput /\ [][NextOutput]_vars

(***************************************************************************)
(* Claims about UniqueFQNValidator (checked under SpecFQN).                *)
(***************************************************************************)
FqnOf(data) == dict_get(data, "fqn", None)

LastIsFqnCall == last.op = "UniqueFQNValidator.validate" /\ isinstance(last.data, "dict")

IsSuccess(out) == out.valid /\ out.error_count = 0 /\ out.errors = <<>>

IsSingleError(out, type, error_at) ==
    /\ ~out.valid
    /\ out.error_count = 1
    /\ Len(out.errors) = 1
    /\ out.errors[1].type = type
    /\ out.errors[1].error_at = error_at

\* C1: first claim wins.  On one instance, the first call carrying a string fqn
\* returns valid with no error; every later call carrying the same fqn returns
\* exactly one duplicate_fqn error at $.fqn whose message names the fqn and the
\* file_path of the first call that carried it.
C1_FirstClaimWins ==
    (LastIsFqnCall /\ isinstance(FqnOf(last.data), "str")) =>
        IF last.prior = <<>>
        THEN IsSuccess(last.out)
        ELSE /\ IsSingleError(last.out, "duplicate_fqn", "$.fqn")
             /\ last.out.errors[1].message =
                    "Duplicate FQN '" \o FqnOf(last.data).s
                        \o "', already present at '" \o last.prior[1] \o "'"

\* C1 witness: a third call is rejected in favour of the first of two other files.
C1_Witness ==
    /\ LastIsFqnCall
    /\ ncalls = 3
    /\ last.prior = <<"a.yaml">>
    /\ last.file_path = "c.YML"
    /\ IsSingleError(last.out, "duplicate_fqn", "$.fqn")

\* C2 as stated: duplicate_fqn exactly when the string fqn is claimed by a
\* different sourceId; unclaimed or claimed by the same sourceId, the call claims
\* the fqn and succeeds.
C2_DuplicateOnlyForDifferentSource ==
    [][(last'.op = "UniqueFQNValidator.validate" /\ ncalls' = ncalls + 1
            /\ isinstance(last'.data, "dict")
            /\ isinstance(FqnOf(last'.data), "str")) =>
        LET map == fqn_to_file_map[last'.self]
            fqn == FqnOf(last'.data).s
            other == fqn \in DOMAIN map /\ map[fqn] # last'.file_path
        IN  /\ IsSingleError(last'.out, "duplicate_fqn", "$.fqn") <=> other
            /\ ~other => /\ IsSuccess(last'.out)
                          /\ fqn \in DOMAIN fqn_to_file_map'[last'.self]
                          /\ fqn_to_file_map'[last'.self][fqn] = last'.file_path]_vars

\* C2 amended: duplicate_fqn exactly when the string fqn is already claimed, by
\* any sourceId (the same one included); when the fqn is unclaimed the call
\* claims it for its sourceId and succeeds.
C2_DuplicateWheneverClaimed ==
    [][(last'.op = "UniqueFQNValidator.validate" /\ ncalls' = ncalls + 1
            /\ isinstance(last'.data, "dict")
            /\ isinstance(FqnOf(last'.data), "str")) =>
        LET map == fqn_to_file_map[last'.self]
            fqn == FqnOf(last'.data).s
            claimed == fqn \in DOMAIN map
        IN  /\ IsSingleError(last'.out, "duplicate_fqn", "$.fqn") <=> claimed
            /\ ~claimed => /\ IsSuccess(last'.out)
                            /\ fqn \in DOMAIN fqn_to_file_map'[last'.self]
                            /\ fqn_to_file_map'[last'.self][fqn] = last'.file_path]_vars

\* C2 witness: a file is validated a second time and is rejected as a duplicate of itself.
C2_Witness ==
    /\ LastIsFqnCall
    /\ last.prior = <<last.file_path>>
    /\ fqn_to_file_map[last.self][FqnOf(last.data).s] = last.file_path
    /\ IsSingleError(last.out, "duplicate_fqn", "$.fqn")

\* C4: a record whose fqn is absent, null or not a string gets exactly one
\* missing_fqn error at $.fqn (error_count 1), whatever the registry holds.
C4_MissingFqn ==
    (LastIsFqnCall /\ ~isinstance(FqnOf(last.data), "str")) =>
        IsSingleError(last.out, "missing_fqn", "$.fqn")

\* C4 witness: a non-string fqn is rejected while the registry holds two claims.
C4_Witness ==
    /\ LastIsFqnCall
    /\ "fqn" \in DOMAIN last.data.d
    /\ isinstance(FqnOf(last.data), "int")
    /\ Cardinality(DOMAIN fqn_to_file_map[last.self]) = 2
    /\ IsSingleError(last.out, "missing_fqn", "$.fqn")

(***************************************************************************)
(* Claims about the dependency validators (checked under SpecDep).         *)
(***************************************************************************)
LastIsDependencyCall ==
    last.op = "DependencyValidator.validate" /\ isinstance(last.data, "dict")

FieldOf(call) == dict_get(call.data, call.field, PyList(<<>>))

IsStringList(value) ==
    isinstance(value, "list") /\ \A i \in 1..Len(value.items) : value.items[i].t = "str"

\* The field is a list of strings that all name existing files.
PassesFieldChecks(call) ==
    /\ IsStringList(FieldOf(call))
    /\ \A i \in 1..Len(FieldOf(call).items) : FieldOf(call).items[i].s \in ExistingFiles

\* The nodes reachable from `from` along one or more edges key -> listed path.
RECURSIVE ReachableFrom(_, _)
ReachableFrom(graph, from) ==
    LET step == from \cup UNION {Range(graph[n]) : n \in from \cap DOMAIN graph} IN
    IF step = from THEN from ELSE ReachableFrom(graph, step)

\* Some key is reachable from the paths it lists.
HasDirectedCycle(graph) ==
    \E n \in DOMAIN graph : n \in ReachableFrom(graph, Range(graph[n]))

IsCircular(out) ==
    /\ ~out.valid
    /\ out.error_count = 1
    /\ Len(out.errors) = 1
    /\ out.errors[1].type = "circular_dependency_detected"

\* C5: cycle detection is exact.  A call whose field is a list of strings naming
\* existing files returns valid iff the adjacency map, with this call's edge
\* recorded, has no directed cycle (a self reference is a cycle); otherwise it
\* returns one circular_dependency_detected error at $.<field>.
C5_CycleDetectionExact ==
    (LastIsDependencyCall /\ PassesFieldChecks(last)) =>
        LET graph == sorted_graph[last.field] IN
        /\ last.file_path \in DOMAIN graph
        /\ graph[last.file_path] = str_items(FieldOf(last))
        /\ IsSuccess(last.out) <=> ~HasDirectedCycle(graph)
        /\ ~IsSuccess(last.out) =>
              /\ IsCircular(last.out)
              /\ last.out.errors[1].error_at = "$." \o last.field

\* C5 witness: three files forming a 3-cycle; the third call reports the cycle
\* (the first two were valid: the latest insertion before it was valid).
C5_Witness ==
    /\ LastIsDependencyCall
    /\ ncalls = 3
    /\ last.field = "depends_on"
    /\ sorted_graph["depends_on"] =
          [k \in SchemaFiles |->
              CASE k = "a.yaml" -> <<"b.json">>
                [] k = "b.json" -> <<"c.YML">>
                [] k = "c.YML" -> <<"a.yaml">>]
    /\ last.file_path = "c.YML"
    /\ IsCircular(last.out)

\* C6: the edge sourceId -> references is recorded before the cycle check: a call
\* that passes the field checks leaves exactly its edge in the map, and when it
\* returns circular_dependency_detected the edge that closed the cycle is still there.
C6_EdgeRecordedBeforeCycleCheck ==
    [][(last'.op = "DependencyValidator.validate" /\ ncalls' = ncalls + 1
            /\ isinstance(last'.data, "dict") /\ PassesFieldChecks(last')) =>
        /\ sorted_graph'[last'.field] =
              dict_set(sorted_graph[last'.field], last'.file_path,
                       str_items(FieldOf(last')))
        /\ HasDirectedCycle(sorted_graph'[last'.field]) => IsCircular(last'.out)]_vars

\* C6 witness: a call closed a 2-cycle, was rejected, and its edge is in the map.
C6_Witness ==
    /\ LastIsDependencyCall
    /\ IsCircular(last.out)
    /\ last.file_path = "b.json"
    /\ "b.json" \in DOMAIN sorted_graph[last.field]
    /\ sorted_graph[last.field]["b.json"] = <<"a.yaml">>
    /\ "a.yaml" \in DOMAIN sorted_graph[last.field]
    /\ sorted_graph[last.field]["a.yaml"] = <<"b.json">>

\* C7 as stated: at every point after an insertion each direction's graph has no cycle.
C7_GraphAlwaysAcyclic ==
    \A f \in Directions : ~HasDirectedCycle(sorted_graph[f])

\* C7 amended: at every point, a direction's graph has no cycle exactly when the
\* latest call that recorded an edge in it returned valid; after a call that
\* returned circular_dependency_detected the graph holds the cycle.
C7_AcyclicAfterValidInsertion ==
    \A f \in Directions :
        /\ last_insert[f] = "none" => sorted_graph[f] = EmptyGraph
        /\ last_insert[f] = "valid" => ~HasDirectedCycle(sorted_graph[f])
        /\ last_insert[f] = "circular_dependency_detected" => HasDirectedCycle(sorted_graph[f])

\* C7 witness: one direction's latest insertion was valid, the other's closed a cycle.
C7_Witness ==
    /\ LastIsDependencyCall
    /\ last_insert["depends_on"] = "valid"
    /\ sorted_graph["depends_on"] # EmptyGraph
    /\ ~HasDirectedCycle(sorted_graph["depends_on"])
    /\ last_insert["dependents"] = "circular_dependency_detected"
    /\ HasDirectedCycle(sorted_graph["dependents"])

\* The first path of the list, in list order, that does not exist.
FirstMissingPath(paths) ==
    paths[CHOOSE i \in 1..Len(paths) :
              /\ paths[i] \notin ExistingFiles
              /\ \A j \in 1..(i - 1) : paths[j] \in ExistingFiles]

\* C8: the checks run in a fixed order and the first failure returns exactly one
\* error: not a list => invalid_type "must be a list"; an element not a string =>
\* invalid_type "must be a list of strings"; the first listed path that does not
\* exist => dependent_file_not_found naming it; in these three cases the map is
\* untouched, and only when all pass is the edge recorded and the cycle check run.
C8_ChecksInFixedOrder ==
    [][(last'.op = "DependencyValidator.validate" /\ ncalls' = ncalls + 1
            /\ isinstance(last'.data, "dict")) =>
        LET name == last'.field
            value == FieldOf(last')
            out == last'.out
        IN
        IF ~isinstance(value, "list")
        THEN /\ IsSingleError(out, "invalid_type", "$." \o name)
             /\ out.errors[1].message = "'" \o name \o "' must be a list"
             /\ sorted_graph' = sorted_graph
        ELSE IF ~IsStringList(value)
        THEN /\ IsSingleError(out, "invalid_type", "$." \o name)
             /\ out.errors[1].message = "'" \o name \o "' must be a list of strings"
             /\ sorted_graph' = sorted_graph
        ELSE IF ~PassesFieldChecks(last')
        THEN /\ IsSingleError(out, "dependent_file_not_found", "$." \o name)
             /\ out.errors[1].message =
                    "File '" \o FirstMissingPath(str_items(value)) \o "' provided in '"
                        \o name \o "' field not found"
             /\ sorted_graph' = sorted_graph
        ELSE /\ last'.file_path \in DOMAIN sorted_graph'[name]
             /\ sorted_graph'[name][last'.file_path] = str_items(value)
             /\ IsSuccess(out) \/ IsCircular(out)]_vars

\* C8 witness: of two missing paths the first in list order is reported, while
\* the map already holds an edge.
C8_Witness ==
    /\ LastIsDependencyCall
    /\ FieldOf(last) = PyStrList(<<"y.yaml", "x.yaml">>)
    /\ IsSingleError(last.out, "dependent_file_not_found", "$." \o last.field)
    /\ last.out.errors[1].message =
          "File 'y.yaml' provided in '" \o last.field \o "' field not found"
    /\ sorted_graph[last.field] # EmptyGraph

\* C9: the two directions own independent adjacency maps: a validate call on one
\* direction leaves the other direction's graph unchanged, and its outcome is the
\* one it would have had with the other direction's graph empty.
C9_DirectionsIndependent ==
    [][(last'.op = "DependencyValidator.validate" /\ ncalls' = ncalls + 1) =>
        LET f == last'.field
            g == OtherDirection(last'.field)
            alone == [sorted_graph EXCEPT ![g] = EmptyGraph]
        IN
        /\ sorted_graph'[g] = sorted_graph[g]
        /\ last'.out = _validate_for(alone, f, last'.data, last'.file_path).out]_vars

\* C9 witness: depends_on accepts an edge while dependents holds a cycle.
C9_Witness ==
    /\ LastIsDependencyCall
    /\ last.field = "depends_on"
    /\ FieldOf(last) = PyStrList(<<"b.json">>)
    /\ last.file_path = "a.yaml"
    /\ IsSuccess(last.out)
    /\ HasDirectedCycle(sorted_graph["dependents"])
    /\ "b.json" \in DOMAIN sorted_graph["dependents"]
    /\ sorted_graph["dependents"]["b.json"] = <<"a.yaml">>

(***************************************************************************)
(* Claims about the orchestrator (checked under Spec).                     *)
(***************************************************************************)
\* Every entry of every registry is still there, with the same claimant.
EntriesKept ==
    \A i \in DOMAIN fqn_to_file_map : \A fqn \in DOMAIN fqn_to_file_map[i] :
        /\ fqn \in DOMAIN fqn_to_file_map'[i]
        /\ fqn_to_file_map'[i][fqn] = fqn_to_file_map[i][fqn]

\* Each registry is exactly: fqn -> the file_path of the first call on that
\* instance that carried the fqn.
RegistryIsFirstClaims ==
    \A i \in DOMAIN fqn_to_file_map : fqn_to_file_map[i] = first_seen[i]

\* C3: registry invariant.  After any sequence of validate_file and
\* UniqueFQNValidator.validate calls, every fqn in a registry maps to the sourceId
\* that first claimed it; no entry is ever overwritten or removed, also when a
\* later rule fails the same file or a later file carries the same fqn.
C3_RegistryKeepsFirstClaim ==
    []RegistryIsFirstClaims /\ [][EntriesKept]_vars

\* C3 witness: with rules (PSX_VAL2, PSX_VAL1), a.yaml claimed a.b and then failed
\* structural validation; the claim is in the registry.
C3_Witness ==
    /\ last.op = "validate_file"
    /\ apply_rules = <<"PSX_VAL2", "PSX_VAL1">>
    /\ last.file_path = "a.yaml"
    /\ last.invoked = <<1, 2>>
    /\ ~last.out.valid
    /\ last.out.errors[1].type = "validation_error"
    /\ FqnOf(last.data) = PyStr("a.b")
    /\ fqn_to_file_map[1] = [k \in {"a.b"} |-> "a.yaml"]

\* The paths whose suffix, lower-cased, is .json, .yml or .yaml.
JsonOrYamlPaths == {"a.yaml", "b.json", "c.YML", "x.yaml", "y.yaml"}

\* The reason loading fails for a validate_file call, "" when it does not.
LoadFailure(call) ==
    IF call.file_path \notin ExistingFiles THEN "file_not_found"
    ELSE IF call.file_path \notin JsonOrYamlPaths THEN "unsupported_format"
    ELSE IF call.parsed = <<>> THEN "parse_error"
    ELSE ""

\* C10: when loading the file fails (file_not_found, unsupported_format or
\* parse_error), validate_file returns that single error at $, invokes no rule
\* validator, and leaves the FQN registries and the dependency graphs unchanged.
C10_LoadFailureSkipsRules ==
    [][(last'.op = "validate_file" /\ ncalls' = ncalls + 1 /\ LoadFailure(last') # "") =>
        /\ IsSingleError(last'.out, LoadFailure(last'), "$")
        /\ last'.raised = ""
        /\ last'.invoked = <<>>
        /\ fqn_to_file_map' = fqn_to_file_map
        /\ sorted_graph' = sorted_graph]_vars

\* C10 witness: c.YML fails to parse after another file claimed a fqn in the
\* orchestrator's registry.
C10_Witness ==
    /\ last.op = "validate_file"
    /\ last.file_path = "c.YML"
    /\ IsSingleError(last.out, "parse_error", "$")
    /\ last.invoked = <<>>
    /\ \E i \in DOMAIN fqn_to_file_map \ {Standalone} : fqn_to_file_map[i] # EmptyMap

(***************************************************************************)
(* Claims about the rule loop of validate_file (checked under Spec).       *)
(***************************************************************************)
\* The validators a call left untouched kept their registries.
UninvokedUnchanged ==
    last'.op = "validate_file" =>
        \A k \in DOMAIN fqn_to_file_map :
            k \notin Range(last'.invoked) => fqn_to_file_map'[k] = fqn_to_file_map[k]

\* What a call of validate_file returned, against what its validators returned.
RulesRunInOrder ==
    last.op = "validate_file" =>
        LET n == Len(last.invoked) IN
        /\ n <= Len(apply_rules)
        /\ last.invoked = [i \in 1..n |-> i]
        /\ last.raised = "" =>
            /\ Len(last.outs) = n
            /\ \A i \in 1..(n - 1) : last.outs[i].valid
            /\ IF last.out.valid
               THEN /\ n = Len(apply_rules)
                    /\ \A i \in 1..n : last.outs[i].valid
               ELSE \/ n = 0 /\ LoadFailure(last) # ""
                    \/ /\ n > 0
                       /\ ~last.outs[n].valid
                       /\ last.out.errors = last.outs[n].errors
                       /\ last.out.error_count = last.outs[n].error_count
                       /\ last.out.file_path = last.file_path

\* C11: validate_file invokes the configured validators in list order, each at
\* most once; validator k runs only if validators 1..k-1 returned valid; at the
\* first invalid outcome it returns exactly that validator's errors and no later
\* validator runs or records anything; it returns valid only after all passed.
C11_RulesInOrderStopAtFirstInvalid ==
    []RulesRunInOrder /\ [][UninvokedUnchanged]_vars

\* A file whose structural check fails under <<PSX_VAL1, PSX_VAL2>>: the
\* uniqueness validator is not invoked and does not record the file's fqn.
C11_Witness ==
    /\ apply_rules = <<"PSX_VAL1", "PSX_VAL2">>
    /\ last.op = "validate_file"
    /\ last.invoked = <<1>>
    /\ ~last.out.valid
    /\ isinstance(last.data, "dict")
    /\ FqnOf(last.data) = PyStr("a.b")
    /\ "a.b" \notin DOMAIN fqn_to_file_map[2]
(***************************************************************************)
(* Claims about rule selection (checked under SpecCli).                    *)
(***************************************************************************)
NotIgnored(rule) == rule \notin cli_args.rule_ignore

\* C12: the applied rule list is the apply-list, or the default set when the
\* apply-list is empty, in its order, without the rules of the ignore-list; no
\* validator of an ignored rule is ever invoked.
C12_IgnoreWinsOverApply ==
    /\ apply_rules =
          SelectSeq(IF cli_args.rule_apply = <<>> THEN DEFAULT_RULESETS
                                                  ELSE cli_args.rule_apply,
                    NotIgnored)
    /\ last.op = "validate_file" =>
          \A k \in Range(last.invoked) : apply_rules[k] \notin cli_args.rule_ignore

\* --rule-apply PSX_VAL1 --rule-apply PSX_VAL2 --rule-ignore PSX_VAL1: a file
\* was validated by the uniqueness validator alone.
C12_Witness ==
    /\ cli_args.rule_apply = <<"PSX_VAL1", "PSX_VAL2">>
    /\ cli_args.rule_ignore = {"PSX_VAL1"}
    /\ apply_rules = <<"PSX_VAL2">>
    /\ last.op = "validate_file"
    /\ last.invoked = <<1>>

NoRuleOptions == cli_args.rule_apply = <<>> /\ cli_args.rule_ignore = {}

\* C13 as stated: with no rule options, the rules run on a file are the
\* structural validator alone.
C13_DefaultIsStructuralOnly ==
    (NoRuleOptions /\ last.op = "validate_file") =>
        /\ apply_rules = <<"PSX_VAL1">>
        /\ \A k \in Range(last.invoked) : apply_rules[k] = "PSX_VAL1"

\* C13, amended: with no rule options, the rules are the structural validator
\* followed by the fqn-uniqueness validator; a file that loads and passes the
\* structural check is then checked for a duplicate fqn.
C13_DefaultIsStructuralThenUniqueFqn ==
    NoRuleOptions =>
        /\ apply_rules = <<"PSX_VAL1", "PSX_VAL2">>
        /\ (last.op = "validate_file" /\ LoadFailure(last) = "" /\ last.raised = "") =>
              /\ last.invoked[1] = 1
              /\ last.outs[1].valid <=> last.invoked = <<1, 2>>
              /\ last.out.valid =>
                    /\ isinstance(last.data, "dict")
                    /\ isinstance(FqnOf(last.data), "str")
                    /\ fqn_to_file_map[2][FqnOf(last.data).s] = last.file_path

\* No rule options; the second file of the batch repeats an fqn and is
\* reported as a duplicate by the default rules.
C13_Witness ==
    /\ NoRuleOptions
    /\ last.op = "validate_file"
    /\ last.invoked = <<1, 2>>
    /\ ~last.out.valid
    /\ last.out.errors[1].type = "duplicate_fqn"
(***************************************************************************)
(* Claims about the orchestrator's validators (checked under Spec).        *)
(***************************************************************************)
\* A populated outcome: the file's path, a verdict, and errors that agree with it.
IsPopulated(call) ==
    /\ call.out.file_path = call.file_path
    /\ call.out.error_count = Len(call.out.errors)
    /\ call.out.valid <=> call.out.errors = <<>>

\* C14: no call of validate or validate_file raises, whatever the loaded
\* content and the rule list; each returns a populated outcome.
C14_RuleFailureNeverRaises ==
    last.op \in {"validate_file", "UniqueFQNValidator.validate"} =>
        last.raised = "" /\ IsPopulated(last)

\* The UniqueFQNValidator instances the orchestrator holds.
OrchestratorFqnInstances == DOMAIN fqn_to_file_map \ {Standalone}

\* C15: the orchestrator holds exactly one instance of the stateful
\* uniqueness validator whenever the rule is configured, and a file whose fqn an
\* earlier file of the batch claimed is reported as a duplicate.
C15_OneInstancePerStatefulRule ==
    (last.op = "validate_file" /\ "PSX_VAL2" \in Range(apply_rules)) =>
        /\ Cardinality(OrchestratorFqnInstances) = 1
        /\ (last.raised = "" /\ last.invoked # <<>> /\ isinstance(last.data, "dict")
                /\ isinstance(FqnOf(last.data), "str")
                /\ \E k \in OrchestratorFqnInstances :
                      /\ k \in Range(last.invoked)
                      /\ FqnOf(last.data).s \in DOMAIN first_seen[k]
                      /\ first_seen[k][FqnOf(last.data).s] # last.file_path)
              => ~last.out.valid
(***************************************************************************)
(* Claims about the schema model builder (checked under SpecSchema).       *)
(***************************************************************************)
LastIsSchemaCall == last.op = "PydanticSchemaValidator.validate"

\* The error of the outcome at a location, with a message.
HasError(out, error_at, message) ==
    \E i \in 1..Len(out.errors) :
        out.errors[i].error_at = error_at /\ out.errors[i].message = message

HasErrorAt(out, error_at) ==
    \E i \in 1..Len(out.errors) : out.errors[i].error_at = error_at

MissingMessage(field_name) == "'" \o field_name \o "' attribute missing"

\* The columns of a record, when it has a list of them.
ColumnsOf(data) ==
    IF isinstance(data, "dict") /\ "columns" \in DOMAIN data.d
          /\ isinstance(data.d["columns"], "list")
    THEN data.d["columns"].items
    ELSE <<>>

ColumnPath(i) == "$.columns[" \o ToString(i - 1) \o "]"

\* The kind of a column: the value of its `type`, when it names a data type.
KindOf(column) ==
    IF isinstance(column, "dict") /\ "type" \in DOMAIN column.d
          /\ isinstance(column.d["type"], "str")
          /\ column.d["type"].s \in Range(SupportedDataTypes)
    THEN column.d["type"].s
    ELSE ""

\* C16: with no overrides the per-run model keeps every field's optionality
\* and annotation, and accepts exactly the records the base DatasetSchema accepts.
C16_NoOverridesKeepBaseModel ==
    (LastIsSchemaCall /\ config = DefaultConfig) =>
        /\ \A f \in Range(DatasetSchemaFields) :
              /\ f \in dataset_schema[config].required <=> f \in DatasetSchema.required
              /\ dataset_schema[config].annotation[f] = DatasetSchema.annotation[f]
        /\ \A kind \in Range(SupportedDataTypes) :
              /\ dataset_schema[config].data_types[kind].required = DataType(kind).required
              /\ dataset_schema[config].data_types[kind].annotation
                    = DataType(kind).annotation
        /\ last.out.valid <=> model_validate(DatasetSchema, last.data) = <<>>

\* The root clause of C17: a named root field that the record omits is
\* reported missing at its location.
NamedRootFieldsRequired ==
    (LastIsSchemaCall /\ isinstance(last.data, "dict")) =>
        \A f \in config.model_required_attributes \cap Range(DatasetSchemaFields) :
            /\ f \notin DOMAIN last.data.d =>
                  HasError(last.out, "$." \o f, MissingMessage(f))
            /\ dataset_schema[config].annotation[f] = DatasetSchema.annotation[f]

\* C17 as stated: a named root field, and a column field named for a kind,
\* that the record omits is reported missing at the field's location (`type`,
\* when named, included).
C17_NamedFieldsRequiredAtFieldLocation ==
    /\ NamedRootFieldsRequired
    /\ LastIsSchemaCall =>
          \A i \in 1..Len(ColumnsOf(last.data)) :
          \A kind \in Range(SupportedDataTypes) :
          \A f \in config.column_required_attributes[kind] \cap Range(DataType(kind).fields) :
              LET column == ColumnsOf(last.data)[i] IN
              (/\ isinstance(column, "dict")
               /\ f \notin DOMAIN column.d
               /\ KindOf(column) = kind \/ (f = "type" /\ KindOf(column) = ""))
              => HasError(last.out, ColumnPath(i) \o "." \o f, MissingMessage(f))

\* C17, amended: as stated for the root fields and for the fields of a column
\* whose `type` names the kind; a column without `type` is reported as
\* "'type' attribute missing" at the column's own location, whatever the
\* overrides; an override changes no annotation and no other kind's columns.
C17_NamedFieldsRequired ==
    /\ NamedRootFieldsRequired
    /\ LastIsSchemaCall =>
          \A i \in 1..Len(ColumnsOf(last.data)) :
              LET column == ColumnsOf(last.data)[i]
                  kind == KindOf(column)
              IN
              isinstance(column, "dict") =>
                IF "type" \notin DOMAIN column.d
                THEN HasError(last.out, ColumnPath(i), MissingMessage("type"))
                ELSE kind # "" =>
                    \A f \in Range(DataType(kind).fields) \ DOMAIN column.d :
                        /\ dataset_schema[config].data_types[kind].annotation[f]
                              = DataType(kind).annotation[f]
                        /\ HasErrorAt(last.out, ColumnPath(i) \o "." \o f)
                             <=> (f \in config.column_required_attributes[kind]
                                    \/ f \in DataType(kind).required)
                        /\ HasErrorAt(last.out, ColumnPath(i) \o "." \o f)
                             => HasError(last.out, ColumnPath(i) \o "." \o f,
                                         MissingMessage(f))

\* Under column_required_attributes = {integer: [minimum]}, an integer column
\* without `minimum` is reported at $.columns[0].minimum.
C17_Witness ==
    /\ LastIsSchemaCall
    /\ config.column_required_attributes = Override("integer", {"minimum"})
    /\ Len(ColumnsOf(last.data)) = 1
    /\ KindOf(ColumnsOf(last.data)[1]) = "integer"
    /\ "minimum" \notin DOMAIN ColumnsOf(last.data)[1].d
    /\ HasError(last.out, "$.columns[0].minimum", "'minimum' attribute missing")
(***************************************************************************)
(* Claims about error locations and messages (checked under SpecSchema).   *)
(***************************************************************************)
\* The path of the offending value in the document: pydantic's loc without
\* the tag it inserts after a column's index; an unknown tag is the column's
\* `type` member.
DocPath(detail) ==
    LET loc == detail.loc
        members == IF Len(loc) >= 3 /\ loc[1] = PyStr("columns") /\ isinstance(loc[2], "int")
                   THEN <<loc[1], loc[2]>> \o SubSeq(loc, 4, Len(loc))
                   ELSE loc
    IN IF detail.type = "union_tag_invalid" THEN members \o <<PyStr("type")>> ELSE members

\* '$', then '.<name>' per object member and '[<index>]' per list index.
RECURSIVE JsonPath(_)
JsonPath(path) ==
    IF path = <<>> THEN "$"
    ELSE LET segment == path[Len(path)] IN
         JsonPath(SubSeq(path, 1, Len(path) - 1))
            \o (IF isinstance(segment, "int") THEN "[" \o ToString(segment.n) \o "]"
                                               ELSE "." \o segment.s)

\* C18: every structural error's error_at is '$' followed by the segments of
\* the offending value's path, '.<name>' for an object member and '[<index>]'
\* for a list index, and holds no column-kind tag as a segment.
C18_ErrorAtIsDocumentPath ==
    LastIsSchemaCall =>
        /\ Len(last.out.errors) = Len(last.details)
        /\ \A i \in 1..Len(last.details) :
              last.out.errors[i].error_at = JsonPath(DocPath(last.details[i]))

\* C19: an undeclared root field is reported as "invalid attribute '<field>'
\* provided" at '$.<field>'; an undeclared field of a column of kind K as
\* "'<field>' invalid attribute for '<K>' type" at '$.columns[i].<field>'.
C19_ExtraFieldMessages ==
    (LastIsSchemaCall /\ isinstance(last.data, "dict")) =>
        /\ \A key \in DOMAIN last.data.d \ Range(DatasetSchemaFields) :
              HasError(last.out, "$." \o key, "invalid attribute '" \o key \o "' provided")
        /\ \A i \in 1..Len(ColumnsOf(last.data)) :
              LET column == ColumnsOf(last.data)[i]
                  kind == KindOf(column)
              IN
              kind # "" =>
                \A key \in DOMAIN column.d \ Range(DataType(kind).fields) :
                    HasError(last.out, ColumnPath(i) \o "." \o key,
                             "'" \o key \o "' invalid attribute for '" \o kind \o "' type")

\* The type word of the message for each type-mismatch kind.
ExpectedTypeWord(type) ==
    CASE type = "int_parsing" -> "int"
      [] type = "int_from_float" -> "int"
      [] type = "float_parsing" -> "float"
      [] type = "bool_parsing" -> "bool"
      [] type = "int_type" -> "int"
      [] type = "float_type" -> "float"
      [] type = "string_type" -> "string"
      [] type = "list_type" -> "list"
      [] type = "model_type" -> "object"

TypeMismatchKinds ==
    {"int_parsing", "int_from_float", "float_parsing", "bool_parsing", "int_type",
     "float_type", "string_type", "list_type", "model_type"}

KindsWithOwnRule ==
    TypeMismatchKinds
        \cup {"extra_forbidden", "missing", "union_tag_invalid", "union_tag_not_found"}

LastSegmentText(loc) ==
    IF loc = <<>> THEN "$"
    ELSE IF isinstance(loc[Len(loc)], "int") THEN ToString(loc[Len(loc)].n)
    ELSE loc[Len(loc)].s

\* C20: an error of a type-mismatch kind has the message "'<last path
\* segment>' expected to be '<kind>' type" ('$' for the empty path, 'object'
\* for model_type); an error of a kind without a rule keeps pydantic's message.
C20_TypeMismatchMessages ==
    LastIsSchemaCall =>
        /\ Len(last.out.errors) = Len(last.details)
        /\ \A i \in 1..Len(last.details) :
              LET detail == last.details[i] IN
              /\ detail.type \in TypeMismatchKinds =>
                    last.out.errors[i].message =
                        "'" \o LastSegmentText(detail.loc) \o "' expected to be '"
                            \o ExpectedTypeWord(detail.type) \o "' type"
              /\ detail.type \notin KindsWithOwnRule =>
                    last.out.errors[i].message = detail.msg

\* An integer column with minimum "x": one error at $.columns[0].minimum.
C20_Witness ==
    /\ LastIsSchemaCall
    /\ Len(ColumnsOf(last.data)) = 1
    /\ KindOf(ColumnsOf(last.data)[1]) = "integer"
    /\ dict_get(ColumnsOf(last.data)[1], "minimum", None) = PyStr("x")
    /\ last.out.error_count = 1
    /\ last.details[1].type = "int_parsing"
    /\ last.out.errors[1].error_at = "$.columns[0].minimum"
    /\ last.out.errors[1].message = "'minimum' expected to be 'int' type"

(***************************************************************************)
(* Claims about the discriminator of a column (checked under SpecSchema).  *)
(***************************************************************************)
\* The indexes of the errors reported for the i-th column.
ErrorsOfColumn(details, i) ==
    {j \in 1..Len(details) :
        /\ Len(details[j].loc) >= 2
        /\ details[j].loc[1] = PyStr("columns")
        /\ details[j].loc[2] = PyInt(i - 1)}

AllowedTagsMessage ==
    "'type' expected to be one of ['string', 'integer', 'float', 'boolean', 'date', 'datetime']"

\* C21: a column with no 'type' yields "'type' attribute missing" at
\* '$.columns[i]'; a column whose 'type' is anything but one of the six
\* literals, a non-string included, yields exactly one error, at
\* '$.columns[i].type', saying "'type' expected to be one of [<the six tags>]".
C21_DiscriminatorFailures ==
    LastIsSchemaCall =>
        /\ Len(last.out.errors) = Len(last.details)
        /\ \A i \in 1..Len(ColumnsOf(last.data)) :
              LET column == ColumnsOf(last.data)[i] IN
              isinstance(column, "dict") =>
                IF "type" \notin DOMAIN column.d
                THEN HasError(last.out, ColumnPath(i), "'type' attribute missing")
                ELSE KindOf(column) = "" =>
                        /\ Cardinality(ErrorsOfColumn(last.details, i)) = 1
                        /\ \A j \in ErrorsOfColumn(last.details, i) :
                              /\ last.out.errors[j].error_at = ColumnPath(i) \o ".type"
                              /\ last.out.errors[j].message = AllowedTagsMessage

\* A column whose 'type' is the number 1: one error, at $.columns[0].type.
C21_Witness ==
    /\ LastIsSchemaCall
    /\ Len(ColumnsOf(last.data)) = 1
    /\ isinstance(ColumnsOf(last.data)[1], "dict")
    /\ dict_get(ColumnsOf(last.data)[1], "type", None) = PyInt(1)
    /\ last.out.error_count = 1
    /\ last.out.errors[1].error_at = "$.columns[0].type"
    /\ last.out.errors[1].message = AllowedTagsMessage

(***************************************************************************)
(* Claims about the order of the errors (checked under SpecSchema).        *)
(***************************************************************************)
\* The position of a name in a declaration; an undeclared name comes after.
IndexOf(names, name) ==
    IF \E i \in 1..Len(names) : names[i] = name
    THEN CHOOSE i \in 1..Len(names) : names[i] = name
    ELSE Len(names) + 1

\* The rank of the k-th segment of an error's path among its siblings: a list
\* index is its own rank, a field ranks by its declaration in the base model
\* it belongs to, the tag after a column's index has no sibling.
SegmentRank(loc, k) ==
    IF isinstance(loc[k], "int") THEN loc[k].n
    ELSE IF k = 1 THEN IndexOf(DatasetSchemaFields, loc[k].s)
    ELSE IF k = 4 /\ loc[3].s \in Range(SupportedDataTypes)
    THEN IndexOf(DataType(loc[3].s).fields, loc[k].s)
    ELSE 0

\* Depth-first order of two paths: a differs from b first at a segment that
\* ranks lower.
ComesBefore(a, b) ==
    \E k \in 1..Len(a) :
        /\ k <= Len(b)
        /\ \A h \in 1..(k - 1) : SegmentRank(a, h) = SegmentRank(b, h)
        /\ SegmentRank(a, k) < SegmentRank(b, k)

\* C22: structural validation reports one error per violation, in a
\* deterministic order: depth-first, the fields of an object in
\* schema-declaration order, the elements of a list in ascending index order;
\* the outcome lists the errors in that order, one entry each.
C22_ErrorsInDeclarationOrder ==
    LastIsSchemaCall =>
        /\ last.out.error_count = Len(last.details)
        /\ Len(last.out.errors) = Len(last.details)
        /\ \A i \in 1..Len(last.details) :
              last.out.errors[i].pydantic_error =
                  <<[type |-> last.details[i].type, msg |-> last.details[i].msg]>>
        /\ \A i, j \in 1..Len(last.details) :
              i < j => ComesBefore(last.details[i].loc, last.details[j].loc)
        /\ last.out = PydanticSchemaValidator_validate(last.data, last.file_path)

\* Two columns with two violations each: max_length before min_length in the
\* first column, then maximum and the undeclared field in the second.
C22_Witness ==
    /\ LastIsSchemaCall
    /\ Len(ColumnsOf(last.data)) = 2
    /\ last.out.error_count = 4
    /\ last.out.errors[1].error_at = "$.columns[0].max_length"
    /\ last.out.errors[2].error_at = "$.columns[0].min_length"
    /\ last.out.errors[3].error_at = "$.columns[1].maximum"
    /\ last.out.errors[4].error_at = "$.columns[1].extra_field"

(***************************************************************************)
(* Claims about end-to-end examples (checked under SpecSchema and Spec).   *)
(***************************************************************************)
\* {name: "T", columns: [], extra: "x"}
RecordWithExtraOnly ==
    PyDict([name |-> PyStr("T"), columns |-> PyList(<<>>), extra |-> PyStr("x")])

\* {name: "T", fqn: "a.b", columns: [], extra: "x"}
RecordWithFqnAndExtra ==
    PyDict([name |-> PyStr("T"), fqn |-> PyStr("a.b"), columns |-> PyList(<<>>),
            extra |-> PyStr("x")])

IsExtraError(error) ==
    error.error_at = "$.extra" /\ error.message = "invalid attribute 'extra' provided"

\* C23 as stated: with default overrides, {name: "T", columns: [], extra: "x"}
\* yields exactly one error, at '$.extra', saying "invalid attribute 'extra'
\* provided".
C23_ExtraIsTheOnlyError ==
    (LastIsSchemaCall /\ config = DefaultConfig /\ last.data = RecordWithExtraOnly) =>
        /\ last.out.error_count = 1
        /\ Len(last.out.errors) = 1
        /\ IsExtraError(last.out.errors[1])

\* C23 amended: with default overrides, {name: "T", fqn: "a.b", columns: [],
\* extra: "x"} yields exactly one error, at '$.extra', saying "invalid
\* attribute 'extra' provided"; without `fqn` the record yields that error
\* after "'fqn' attribute missing" at '$.fqn', two errors in all.
C23_ExtraIsTheOnlyErrorGivenFqn ==
    (LastIsSchemaCall /\ config = DefaultConfig) =>
        /\ last.data = RecordWithFqnAndExtra =>
              /\ ~last.out.valid
              /\ last.out.error_count = 1
              /\ Len(last.out.errors) = 1
              /\ IsExtraError(last.out.errors[1])
        /\ last.data = RecordWithExtraOnly =>
              /\ ~last.out.valid
              /\ last.out.error_count = 2
              /\ Len(last.out.errors) = 2
              /\ last.out.errors[1].error_at = "$.fqn"
              /\ last.out.errors[1].message = "'fqn' attribute missing"
              /\ IsExtraError(last.out.errors[2])

\* The record with `fqn` was validated under the default overrides and got
\* its one error.
C23_Witness ==
    /\ LastIsSchemaCall
    /\ config = DefaultConfig
    /\ last.data = RecordWithFqnAndExtra
    /\ last.out.error_count = 1
    /\ IsExtraError(last.out.errors[1])

\* error_count counts the errors, and valid says there is none.
IsConsistent(out) ==
    /\ out.error_count = Len(out.errors)
    /\ out.valid <=> out.error_count = 0

\* C24: every outcome returned by the file validator, by a rule validator, by
\* merge_validation_outputs or by validate_file has error_count = len(errors)
\* and is valid exactly when error_count = 0; {name: "T", fqn: "a.b",
\* columns: []} with no overrides gives valid: true, error_count: 0.
C24_OutcomesAreConsistent ==
    (last.op # "init" /\ last.raised = "") =>
        /\ IsConsistent(last.out)
        /\ \A i \in 1..Len(last.outs) : IsConsistent(last.outs[i])
        /\ last.op = "validate_file" =>
              /\ IsConsistent(FileValidator_validate(last.file_path, last.parsed).out)
              /\ \A i \in 1..Len(last.outs) :
                    IsConsistent(merge_validation_outputs(
                        <<FileValidator_validate(last.file_path, last.parsed).out,
                          last.outs[i]>>))
              /\ (/\ config = DefaultConfig
                  /\ apply_rules = <<"PSX_VAL1">>
                  /\ LoadFailure(last) = ""
                  /\ last.data = PyDict(WellFormed(PyStr("a.b"))))
                    => last.out.valid /\ last.out.error_count = 0

\* A file failed its second rule: the merged outcome holds that rule's error
\* and is invalid.
C24_Witness ==
    /\ last.op = "validate_file"
    /\ last.raised = ""
    /\ Len(last.outs) = 2
    /\ last.outs[1].valid
    /\ ~last.outs[2].valid
    /\ ~last.out.valid
    /\ last.out.error_count = 1
    /\ Len(last.out.errors) = 1

(***************************************************************************)
(* Claims about the summary (checked under SpecSummary).                   *)
(***************************************************************************)
IsInvalidCall(call) == ~call.valid

\* The file_path of every add_record call with valid = false, in call order.
InvalidFilesOf(calls) ==
    LET invalid == SelectSeq(calls, IsInvalidCall) IN
    [i \in 1..Len(invalid) |-> invalid[i].file_path]

\* C25: after any sequence of add_record(valid, file_path) calls,
\* validated_file_count is the number of calls and the sum of
\* valid_file_count and invalid_file_count, and error_files is the file_path
\* of every call with valid = false, in call order, invalid_file_count long.
C25_SummaryCountsCalls ==
    /\ summary.validated_file_count = Len(add_calls)
    /\ summary.validated_file_count
          = summary.valid_file_count + summary.invalid_file_count
    /\ summary.error_files = InvalidFilesOf(add_calls)
    /\ Len(summary.error_files) = summary.invalid_file_count

\* add_record(True, a), add_record(False, b), add_record(True, c): three
\* files, two valid, one invalid, error_files = [b].
C25_Witness ==
    /\ add_calls = <<[valid |-> TRUE, file_path |-> "a.yaml"],
                     [valid |-> FALSE, file_path |-> "b.json"],
                     [valid |-> TRUE, file_path |-> "c.YML"]>>
    /\ summary.validated_file_count = 3
    /\ summary.valid_file_count = 2
    /\ summary.invalid_file_count = 1
    /\ summary.error_files = <<"b.json">>

(***************************************************************************)
(* Claims about the output controller (checked under SpecOutput).          *)
(***************************************************************************)
\* What holds of every state of a batch, per fail mode.
FailModeState ==
    /\ output_control.fail_mode = "FAIL_FAST" =>
          /\ summary.invalid_file_count <= 1
          /\ summary.invalid_file_count = 1 =>
                /\ exit_code = 1
                /\ ~add_calls[Len(add_calls)].valid
                /\ summary.validated_file_count = Len(add_calls)
    /\ output_control.fail_mode = "FAIL_AFTER" =>
          (exit_code # Running => (exit_code = 1 <=> summary.invalid_file_count > 0))
    /\ output_control.fail_mode = "FAIL_NEVER" => exit_code # 1

\* What holds of every step of a batch: nothing is recorded once the run has
\* ended; outside fail-fast mode an outcome is recorded and the run goes on.
FailModeStep ==
    /\ exit_code # Running => summary' = summary /\ add_calls' = add_calls
    /\ (output_control.fail_mode # "FAIL_FAST" /\ add_calls' # add_calls) =>
          /\ exit_code' = Running
          /\ summary'.validated_file_count = summary.validated_file_count + 1

\* C26: over a batch of outcomes fed in order to the output controller: in
\* fail-fast mode the first invalid outcome ends the run with an error at
\* once, so no later file is recorded and the invalid count never exceeds 1;
\* in fail-after mode every file is recorded and the run ends with an error
\* exactly when an outcome was invalid; in fail-never mode the run never ends
\* with an error, however many outcomes were invalid.
C26_FailModePolicy == []FailModeState /\ [][FailModeStep]_vars

\* Fail-fast: a valid outcome, then an invalid one, and the run has ended
\* with exit code 1.
C26_Witness ==
    /\ output_control.fail_mode = "FAIL_FAST"
    /\ Len(add_calls) = 2
    /\ add_calls[1].valid
    /\ ~add_calls[2].valid
    /\ summary.invalid_file_count = 1
    /\ exit_code = 1

(***************************************************************************)
(* Claims about a registered cycle (checked under SpecDep).                *)
(***************************************************************************)
\* The graph without the entry of one key.
WithoutEntry(graph, key) == [k \in DOMAIN graph \ {key} |-> graph[k]]

\* C27: once a cycle is registered in a direction's graph, every later
\* validate call on that direction whose field passes the type and existence
\* checks returns circular_dependency_detected, also for a file that is not
\* on the cycle, as long as the cycle's edges stay: an entry changes only
\* when its own file is validated again.
C27_RegisteredCyclePoisonsLaterCalls ==
    [][(last'.op = "DependencyValidator.validate" /\ ncalls' = ncalls + 1
            /\ isinstance(last'.data, "dict")) =>
        LET f == last'.field
            kept == WithoutEntry(sorted_graph[f], last'.file_path)
        IN
        /\ \A k \in DOMAIN kept :
              k \in DOMAIN sorted_graph'[f] /\ sorted_graph'[f][k] = kept[k]
        /\ (PassesFieldChecks(last') /\ HasDirectedCycle(kept)) =>
              /\ IsCircular(last'.out)
              /\ last'.out.errors[1].error_at = "$." \o f
              /\ HasDirectedCycle(sorted_graph'[f])]_vars

\* a.yaml and b.json list each other; c.YML, which lists nothing, is rejected
\* with circular_dependency_detected.
C27_Witness ==
    /\ LastIsDependencyCall
    /\ last.file_path = "c.YML"
    /\ FieldOf(last) = PyStrList(<<>>)
    /\ IsCircular(last.out)
    /\ sorted_graph[last.field] =
          [k \in SchemaFiles |->
              CASE k = "a.yaml" -> <<"b.json">>
                [] k = "b.json" -> <<"a.yaml">>
                [] k = "c.YML" -> <<>>]

(***************************************************************************)
(* Claims about rejected calls (checked under SpecRules).                  *)
(***************************************************************************)
\* The call returned one error of one of the given kinds.
IsRejectedAs(call, kinds) ==
    /\ call.raised = ""
    /\ ~call.out.valid
    /\ Len(call.out.errors) = 1
    /\ call.out.errors[1].type \in kinds

\* C28: a UniqueFQNValidator.validate call that returns missing_fqn or
\* duplicate_fqn leaves the registry unchanged; a dependency validate call
\* that returns invalid_type or dependent_file_not_found leaves that
\* direction's graph unchanged.
C28_RejectedCallsChangeNothing ==
    [][ncalls' = ncalls + 1 =>
        /\ (/\ last'.op = "UniqueFQNValidator.validate"
            /\ IsRejectedAs(last', {"missing_fqn", "duplicate_fqn"}))
              => fqn_to_file_map' = fqn_to_file_map
        /\ (/\ last'.op = "DependencyValidator.validate"
            /\ IsRejectedAs(last', {"invalid_type", "dependent_file_not_found"}))
              => sorted_graph'[last'.field] = sorted_graph[last'.field]]_vars

\* A file that lists a missing path is rejected and has no entry in the
\* graph, which holds the edge of another file; the registry holds a claim.
C28_Witness ==
    /\ LastIsDependencyCall
    /\ IsRejectedAs(last, {"dependent_file_not_found"})
    /\ sorted_graph[last.field] # EmptyGraph
    /\ last.file_path \notin DOMAIN sorted_graph[last.field]
    /\ fqn_to_file_map[Standalone] # EmptyMap

(***************************************************************************)
(* Claims about the required-attribute overrides as a whole (checked       *)
(* under SpecSchema).                                                      *)
(***************************************************************************)
\* Every field `smaller` names, at the root and per kind, `larger` names too.
NamesNoMoreThan(smaller, larger) ==
    /\ smaller.model_required_attributes \subseteq larger.model_required_attributes
    /\ \A kind \in Range(SupportedDataTypes) :
          smaller.column_required_attributes[kind]
              \subseteq larger.column_required_attributes[kind]

\* The two overrides name the same fields, leaving out names that are no field.
SameExistingFields(one, other) ==
    /\ one.model_required_attributes \cap Range(DatasetSchemaFields)
          = other.model_required_attributes \cap Range(DatasetSchemaFields)
    /\ \A kind \in Range(SupportedDataTypes) :
          one.column_required_attributes[kind] \cap Range(DataType(kind).fields)
              = other.column_required_attributes[kind] \cap Range(DataType(kind).fields)

\* C29: the required-attribute overrides are monotone: a record that is
\* valid under the overrides S' is valid under every S that names no more
\* than S'; naming a field that does not exist changes nothing.
C29_OverridesAreMonotone ==
    LastIsSchemaCall =>
        \A cfg \in Configs :
            /\ (NamesNoMoreThan(cfg, config) /\ last.out.valid) =>
                  model_validate(dataset_schema[cfg], last.data) = <<>>
            /\ SameExistingFields(cfg, config) =>
                  validation_output(model_validate(dataset_schema[cfg], last.data),
                                    last.file_path) = last.out

\* A record with an integer column that has a `minimum` is valid under the
\* overrides that name fqn, columns and the minimum of integers.
C29_Witness ==
    /\ LastIsSchemaCall
    /\ config.model_required_attributes = {"fqn", "columns"}
    /\ config.column_required_attributes = Override("integer", {"minimum"})
    /\ Len(ColumnsOf(last.data)) = 1
    /\ KindOf(ColumnsOf(last.data)[1]) = "integer"
    /\ last.out.valid
    /\ model_validate(dataset_schema[DefaultConfig], last.data) = <<>>

(***************************************************************************)
(* Claims about the identifier an outcome carries (checked under           *)
(* SpecRules; the formula reads only the call that just returned).         *)
(***************************************************************************)
\* C30: every outcome carries the identifier of its file: the validate of
\* each rule validator returns file_path equal to its file_path argument,
\* when valid and for every kind of invalid outcome, and validate_file
\* returns file_path equal to str(file_path).
C30_OutcomeCarriesFilePath ==
    (last.op # "init" /\ last.raised = "") =>
        /\ last.out.file_path = last.file_path
        /\ \A i \in 1..Len(last.outs) : last.outs[i].file_path = last.file_path
====
